---- MODULE Spec2Model ----
(***************************************************************************)
(* Model of the dent-slot-checker scraping-and-analysis engine.            *)
(*                                                                         *)
(* The module holds one set of variables and several specifications, one   *)
(* per component:                                                          *)
(*   SpecTask   web/task_manager.py      TaskManager                       *)
(*   SpecCheck  web/routes/results.py    POST /check (run_check)           *)
(*   SpecSched  src/scraper*.py          one back-end scheduler            *)
(*   SpecRun    results.py / main.py     a run over both back-ends         *)
(*   SpecAgg    src/main.py, results.py  aggregation and web filter        *)
(*   SpecRows   src/scraper.py           build_row_time_mapping            *)
(*   SpecPool   src/browser_pool.py      run_async and its timeout         *)
(*   SpecDate   main.py, results.py      check_date of produced documents  *)
(*   SpecAnalyzer  src/slot_analyzer.py  one call of an analyzer function  *)
(*   SpecParse  src/scraper.py           parse_schedule_from_iframe        *)
(*   SpecSpa    src/scraper_stransa.py   get_stransa_empty_slots           *)
(*   SpecStartup  src/browser_pool.py    init_browser and get_browser      *)
(*   SpecSingleton  web/task_manager.py  TaskManager() at first use        *)
(*   SpecMerge  web/routes/results.py    artifacts of successive web runs  *)
(* A specification leaves the variables of the other components at their   *)
(* initial values.                                                         *)
(***************************************************************************)
EXTENDS Integers, Sequences, FiniteSets, TLC

None == "None"
\* an absent (None) timestamp
NoTime == -1

\* a dict with key k set to v
Put(f, k, v) == [x \in DOMAIN f \cup {k} |-> IF x = k THEN v ELSE f[x]]
EmptyMap == [x \in {} |-> None]

(***************************************************************************)
(* Bounds of the model.                                                    *)
(***************************************************************************)
\* the wall clock (seconds) runs over 0..MaxClock
MaxClock == 1
\* update_progress reports current in 0..MaxProgress
MaxProgress == 1
\* TaskManager calls and restarts explored in one behaviour
MaxOps == 3
\* POST /check requests (request threads) in one behaviour
NumRequests == 3
\* time.time() runs over 1..MaxWall while requests are served
MaxWall == 2
\* clinics handed to the legacy (dent-sys) scheduler when it is called alone
NumLegacy == 4
\* clinics handed to the SPA (stransa) scheduler when it is called alone
NumSpa == 5
\* clinics per back-end in a run that covers both back-ends
NumPerRun == 2
\* rows of the schedule table handed to build_row_time_mapping
MaxRows == 4
\* free-slot timestamps one staff member can have
MaxSlots == 3
\* largest minimum_blocks_required the settings can hold
MaxMinimum == 2
\* runs submitted to the browser pool
MaxRuns == 2
\* longest timestamp list handed to a slot-analyzer function
MaxLen == 4
\* largest required run of a direct call
MaxRequired == 2
\* anchors of one schedule table
MaxAnchors == 3
\* time rows of one SPA schedule table
MaxSpaRows == 1
\* init_browser calls in one behaviour
MaxInits == 2
\* web runs that call get_browser in one behaviour
NumWebRuns == 2
\* threads that construct TaskManager() at first use
NumCtors == 3
\* artifacts saved for one check date
MaxArtifacts == 3
\* hours the clock of the date model runs
MaxHours == 30
\* pages one run's coroutine opens
MaxPoolPages == 2

VARIABLES
    \* ---- TaskManager (web/task_manager.py)
    tasks,          \* self._tasks: dict task_id -> TaskInfo
    gcs_store,      \* object storage: dict task_id -> task dict
    local_store,    \* tasks_dir/task_<id>.json: dict task_id -> task dict
    now,            \* datetime.now(), in seconds
    gcs_enabled,    \* is_gcs_enabled(): GCS_BUCKET is set
    last_op,        \* the last TaskManager call, its arguments and outcome
    ops,            \* number of TaskManager calls and restarts so far
    \* ---- POST /check (web/routes/results.py)
    req,            \* request thread -> its position, captured filter, response
    check_thread,   \* _check_thread: a thread handle, or NoThread
    check_started_at, \* _check_started_at: time.time() of the last start, or NoTime
    check_result,   \* _check_result: "None", "True" or "False"
    check_error,    \* _check_error: "None" or a message
    thr,            \* thread handle -> "unborn", "new", "alive", "finishing", "dead"
    wall,           \* time.time(), in seconds
    \* ---- scraper schedulers (src/scraper.py, src/scraper_stransa.py)
    clinics,        \* back-end -> the enabled clinics of the configuration
    run,            \* the caller of the schedulers: its kind and position
    sched,          \* back-end -> position of its scheduler coroutine
    wk,             \* clinic -> its worker coroutine: position and outcome
    permits,        \* back-end -> free permits of the scheduler's semaphore
    pages,          \* clinics whose page is open in the browser
    results,        \* back-end -> the dict its scheduler returns
    \* ---- row-time mapper (src/scraper.py)
    rows_data,      \* what frame.evaluate returns: one descriptor per table row
    slot_interval,  \* the slot_interval argument
    row_map,        \* the dict build_row_time_mapping returns
    row_pc,         \* "input" before the call, "mapped" after it
    \* ---- result aggregation (src/main.py, web/routes/results.py)
    agg_scrape,     \* scrape_results: clinic -> staff -> list of minutes
    agg_system,     \* system_type of the analysed back-end
    agg_settings,   \* slot settings of the configuration
    agg_rules,      \* staff_by_clinic of the staff rules
    agg_data,       \* the result document: results and summary
    agg_pc,         \* "input", "analyzed", "filtered", "dashboard"
    \* ---- browser pool (src/browser_pool.py)
    pool_thread,    \* run -> the worker thread at future.result: "none", "waiting", "returned", "timed_out"
    pool_coro,      \* run -> its coroutine on the pool's loop: "none", "running", "finished"
    pool_pages,     \* run -> number of pages the coroutine has open
    pool_opened,    \* run -> number of pages the coroutine has opened so far
    pool_elapsed,   \* run -> seconds the worker has waited on the future
    pool_result,    \* run -> _check_result as the worker left it
    pool_browser,   \* TRUE while the pool's browser is alive
    \* ---- check_date (src/main.py, web/routes/results.py)
    date_now,       \* the instant, in hours of UTC since day 0
    date_zone,      \* the host's zone as its offset from UTC in hours
    date_artifact,  \* the last document produced: who made it, when, its check_date
    \* ---- direct calls of the slot analyzer (src/slot_analyzer.py)
    an_times,       \* the slot_times argument
    an_interval,    \* the interval / default argument
    an_call,        \* the function called, None before the call
    an_args,        \* the required run and the threshold of the call
    an_out,         \* what the call returned, or that it raised
    \* ---- legacy extraction (src/scraper.py parse_schedule_from_iframe)
    ps_rows,        \* the rows of the schedule table
    ps_anchors,     \* the "new" anchors in document order, each <<col, row>>
    ps_slots,       \* doctor_slots as returned
    ps_pc,          \* "input" before the call, "parsed" after it
    \* ---- SPA extraction (src/scraper_stransa.py get_stransa_empty_slots)
    sp_rows,        \* the rows of the schedule table below the header row
    sp_slots,       \* chair_slots as returned
    sp_pc,          \* "input" before the call, "extracted" after it
    \* ---- browser pool start-up (src/browser_pool.py init_browser, get_browser)
    bp_init,        \* per init_browser call: its position, its loop thread, its coroutine
    bp_loop,        \* _loop: the loop of the thread that assigned it last
    bp_browser,     \* _browser
    bp_ready,       \* _ready.is_set()
    bp_launched,    \* the browsers launched by the process
    bp_get,         \* per web run: its position at get_browser and the value it got
    \* ---- TaskManager() under concurrent first use (web/task_manager.py)
    sg_pc,          \* per thread: its position in TaskManager() and create_task
    sg_instance,    \* cls._instance: "none", "allocated" (no _initialized yet), "constructed"
    sg_initialized, \* self._initialized
    sg_tasks,       \* the keys of self._tasks
    sg_made,        \* how often self._tasks was created
    sg_allocs,      \* how many instances were allocated
    \* ---- artifacts of web runs for one check date (web/routes/results.py)
    mg_files,       \* the artifacts of the check date, oldest first, newest last
    mg_run          \* the web run in progress: position, system_filter, all_results

taskVars == <<tasks, gcs_store, local_store, now, gcs_enabled, last_op, ops>>
checkVars == <<req, check_thread, check_started_at, check_result, check_error,
               thr, wall>>

schedVars == <<clinics, run, sched, wk, permits, pages, results>>

rowVars == <<rows_data, slot_interval, row_map, row_pc>>

aggVars == <<agg_scrape, agg_system, agg_settings, agg_rules, agg_data, agg_pc>>

poolVars == <<pool_thread, pool_coro, pool_pages, pool_opened, pool_elapsed, pool_result,
             pool_browser>>

dateVars == <<date_now, date_zone, date_artifact>>

analyzerVars == <<an_times, an_interval, an_call, an_args, an_out>>

parseVars == <<ps_rows, ps_anchors, ps_slots, ps_pc>>

spaVars == <<sp_rows, sp_slots, sp_pc>>

startupVars == <<bp_init, bp_loop, bp_browser, bp_ready, bp_launched, bp_get>>

singletonVars == <<sg_pc, sg_instance, sg_initialized, sg_tasks, sg_made, sg_allocs>>

mergeVars == <<mg_files, mg_run>>

vars == <<taskVars, checkVars, schedVars, rowVars, aggVars, poolVars, dateVars, analyzerVars, parseVars, spaVars, startupVars, singletonVars, mergeVars>>

otherThanTask == <<checkVars, schedVars, rowVars, aggVars, poolVars, dateVars, analyzerVars, parseVars, spaVars, startupVars, singletonVars, mergeVars>>
otherThanCheck == <<taskVars, schedVars, rowVars, aggVars, poolVars, dateVars, analyzerVars, parseVars, spaVars, startupVars, singletonVars, mergeVars>>
otherThanSched == <<taskVars, checkVars, rowVars, aggVars, poolVars, dateVars, analyzerVars, parseVars, spaVars, startupVars, singletonVars, mergeVars>>
otherThanRows == <<taskVars, checkVars, schedVars, aggVars, poolVars, dateVars, analyzerVars, parseVars, spaVars, startupVars, singletonVars, mergeVars>>
otherThanAgg == <<taskVars, checkVars, schedVars, rowVars, poolVars, dateVars, analyzerVars, parseVars, spaVars, startupVars, singletonVars, mergeVars>>
otherThanPool == <<taskVars, checkVars, schedVars, rowVars, aggVars, dateVars, analyzerVars, parseVars, spaVars, startupVars, singletonVars, mergeVars>>
otherThanDate == <<taskVars, checkVars, schedVars, rowVars, aggVars, poolVars, analyzerVars, parseVars, spaVars, startupVars, singletonVars, mergeVars>>
otherThanAnalyzer == <<taskVars, checkVars, schedVars, rowVars, aggVars, poolVars, dateVars, parseVars, spaVars, startupVars, singletonVars, mergeVars>>
otherThanParse == <<taskVars, checkVars, schedVars, rowVars, aggVars, poolVars, dateVars, analyzerVars, spaVars, startupVars, singletonVars, mergeVars>>
otherThanSpa == <<taskVars, checkVars, schedVars, rowVars, aggVars, poolVars, dateVars, analyzerVars, parseVars, startupVars, singletonVars, mergeVars>>
otherThanStartup == <<taskVars, checkVars, schedVars, rowVars, aggVars, poolVars, dateVars, analyzerVars, parseVars, spaVars, singletonVars, mergeVars>>
otherThanSingleton == <<taskVars, checkVars, schedVars, rowVars, aggVars, poolVars, dateVars, analyzerVars, parseVars, spaVars, startupVars, mergeVars>>
otherThanMerge == <<taskVars, checkVars, schedVars, rowVars, aggVars, poolVars, dateVars, analyzerVars, parseVars, spaVars, startupVars, singletonVars>>

(***************************************************************************)
(* POST /check: run_check and its worker thread                            *)
(***************************************************************************)
Requests == 1..NumRequests
NoThread == 0
\* each request that gets that far constructs one Thread object
Handle(r) == r
Handles == {Handle(r) : r \in Requests}
SystemFilters == {"dent-sys", "stransa", None}
NoResponse == [code |-> 0, elapsed |-> 0]
\* a request record; started is the time the request wrote to _check_started_at
NoRequest == [pc |-> "idle", system |-> None, resp |-> NoResponse, started |-> NoTime]

\* the module-level state of results.py and no request in flight
CheckIdle ==
    /\ req = [r \in Requests |-> NoRequest]
    /\ check_thread = NoThread
    /\ check_started_at = NoTime
    /\ check_result = "None"
    /\ check_error = "None"
    /\ thr = [h \in Handles |-> "unborn"]
    /\ wall = 1

\* threading.Thread.is_alive()
IsAlive(h) == thr[h] \in {"alive", "finishing"}

\* int(time.time() - (_check_started_at or time.time()))
Elapsed == IF check_started_at = NoTime THEN 0 ELSE wall - check_started_at

WallTick ==
    /\ wall < MaxWall
    /\ wall' = wall + 1
    /\ UNCHANGED <<req, check_thread, check_started_at, check_result, check_error, thr>>
    /\ UNCHANGED otherThanCheck

\* a POST /check arrives and is given a request thread
Arrive(r) ==
    /\ req[r].pc = "idle"
    /\ req' = [req EXCEPT ![r].pc = "check"]
    /\ UNCHANGED <<check_thread, check_started_at, check_result, check_error, thr, wall>>
    /\ UNCHANGED otherThanCheck

\* if _check_thread and _check_thread.is_alive(): return 409
RejectIfRunning(r) ==
    /\ req[r].pc = "check"
    /\ IF check_thread # NoThread /\ IsAlive(check_thread)
       THEN req' = [req EXCEPT ![r].pc = "done",
                               ![r].resp = [code |-> 409, elapsed |-> Elapsed]]
       ELSE \E f \in SystemFilters :
                \* data.get('system')
                req' = [req EXCEPT ![r].pc = "mark", ![r].system = f]
    /\ UNCHANGED <<check_thread, check_started_at, check_result, check_error, thr, wall>>
    /\ UNCHANGED otherThanCheck

\* _check_started_at = time.time(); _check_result = None; _check_error = None
MarkStarted(r) ==
    /\ req[r].pc = "mark"
    /\ check_started_at' = wall
    /\ check_result' = "None"
    /\ check_error' = "None"
    /\ req' = [req EXCEPT ![r].pc = "create", ![r].started = wall]
    /\ UNCHANGED <<check_thread, thr, wall>>
    /\ UNCHANGED otherThanCheck

\* _check_thread = threading.Thread(target=_run_check_thread, daemon=True)
CreateThread(r) ==
    /\ req[r].pc = "create"
    /\ check_thread' = Handle(r)
    /\ thr' = [thr EXCEPT ![Handle(r)] = "new"]
    /\ req' = [req EXCEPT ![r].pc = "start"]
    /\ UNCHANGED <<check_started_at, check_result, check_error, wall>>
    /\ UNCHANGED otherThanCheck

\* _check_thread.start(), on whatever the global names now; starting a thread
\* a second time raises RuntimeError and the request ends in a 500
StartThread(r) ==
    /\ req[r].pc = "start"
    /\ IF thr[check_thread] = "new"
       THEN /\ thr' = [thr EXCEPT ![check_thread] = "alive"]
            /\ req' = [req EXCEPT ![r].pc = "done",
                                   ![r].resp = [code |-> 200, elapsed |-> 0]]
       ELSE /\ thr' = thr
            /\ req' = [req EXCEPT ![r].pc = "done",
                                   ![r].resp = [code |-> 500, elapsed |-> 0]]
    /\ UNCHANGED <<check_thread, check_started_at, check_result, check_error, wall>>
    /\ UNCHANGED otherThanCheck

\* _run_check_thread reaches its end: _check_result = True, or the except
\* branch sets _check_result = False and _check_error
WorkerFinish(h) ==
    /\ thr[h] = "alive"
    /\ \E ok \in BOOLEAN :
          /\ check_result' = IF ok THEN "True" ELSE "False"
          /\ check_error' = IF ok THEN check_error ELSE "error"
    /\ thr' = [thr EXCEPT ![h] = "finishing"]
    /\ UNCHANGED <<req, check_thread, check_started_at, wall>>
    /\ UNCHANGED otherThanCheck

\* the finally block has run and the thread ends
WorkerExit(h) ==
    /\ thr[h] = "finishing"
    /\ thr' = [thr EXCEPT ![h] = "dead"]
    /\ UNCHANGED <<req, check_thread, check_started_at, check_result, check_error, wall>>
    /\ UNCHANGED otherThanCheck

(***************************************************************************)
(* Scraper schedulers: scrape_all_clinics, scrape_all_stransa_clinics and  *)
(* their per-clinic workers.  The workers are coroutines of one event      *)
(* loop: a step runs from one await to the next.                           *)
(***************************************************************************)
Backends == {"dent-sys", "stransa"}
\* a clinic is its back-end and its position in the back-end's list; the
\* clinic name is the primary key of the configuration
AllClinics == UNION {clinics[b] : b \in Backends}
Backend(c) == c[1]

\* sem = asyncio.Semaphore(3) and sem = asyncio.Semaphore(4)
LegacyCap == 3
SpaCap == 4
Cap(b) == IF b = "dent-sys" THEN LegacyCap ELSE SpaCap

\* what a worker's run of the adapter protocol ends in:
\*   "slots"  extraction returned its observation map (also after a failed
\*            next-day navigation, which only logs a warning)
\*   "empty"  headers or frame not found: return {}      (legacy only)
\*   "none"   login failed, or an exception inside the try: return None
ProtocolOutcomes(b) ==
    IF b = "dent-sys" THEN {"slots", "empty", "none"} ELSE {"slots", "none"}

NoWorker == [pc |-> "idle", out |-> None]

\* no scheduler has been called
SchedIdle ==
    /\ clinics = [b \in Backends |-> {}]
    /\ run = [kind |-> None, pc |-> "idle"]
    /\ sched = [b \in Backends |-> "idle"]
    /\ wk = EmptyMap
    /\ permits = [b \in Backends |-> 0]
    /\ pages = {}
    /\ results = [b \in Backends |-> EmptyMap]

\* the configuration of a call: the clinic lists, every worker idle
SchedConfigured(nLegacy, nSpa, kind) ==
    /\ clinics = [b \in Backends |->
                    {<<b, i>> : i \in 1..(IF b = "dent-sys" THEN nLegacy ELSE nSpa)}]
    /\ run = [kind |-> kind, pc |-> "start"]
    /\ sched = [b \in Backends |-> "idle"]
    /\ wk = [c \in AllClinics |-> NoWorker]
    /\ permits = [b \in Backends |-> 0]
    /\ pages = {}
    /\ results = [b \in Backends |-> EmptyMap]

\* the workers of back-end b that hold its semaphore
Holders(b) == {c \in clinics[b] : wk[c].pc \in {"opening", "open", "closing"}}

\* The scheduler is called: the semaphore is created and one worker task per
\* clinic is handed to asyncio.gather.
\* (primed variables: sched, wk, permits, results)
StartScheduler(bs) ==
    /\ sched' = [b \in Backends |-> IF b \in bs THEN "gather" ELSE sched[b]]
    /\ wk' = [c \in AllClinics |->
                IF Backend(c) \in bs THEN [pc |-> "queued", out |-> None] ELSE wk[c]]
    /\ permits' = [b \in Backends |-> IF b \in bs THEN Cap(b) ELSE permits[b]]
    /\ results' = [b \in Backends |-> IF b \in bs THEN EmptyMap ELSE results[b]]

\* async with sem: a worker enters only while a permit is free
CanAcquireAlways(b) == TRUE

CanAcquire(b) == permits[b] > 0

\* async with sem, then the call of browser.new_page() is under way
Acquire(c) ==
    /\ wk[c].pc = "queued"
    /\ CanAcquire(Backend(c))
    /\ permits' = [permits EXCEPT ![Backend(c)] = @ - 1]
    /\ wk' = [wk EXCEPT ![c].pc = "opening"]
    /\ UNCHANGED <<clinics, run, sched, pages, results>>
    /\ UNCHANGED otherThanSched

\* What gather receives from a worker whose browser.new_page() raised: the
\* legacy worker has no handler around scrape_clinic, the exception leaves
\* _scrape_one; the SPA worker catches it and returns (name, {}).
OpenFailureItem(b) == IF b = "dent-sys" THEN "exception" ELSE "empty"

\* page = await browser.new_page() returns a page, or raises; raising is
\* outside the try of scrape_clinic / scrape_stransa_clinic, and leaving the
\* async with block releases the permit
NewPage(c) ==
    /\ wk[c].pc = "opening"
    /\ \/ /\ pages' = pages \cup {c}
          /\ wk' = [wk EXCEPT ![c].pc = "open"]
          /\ UNCHANGED permits
       \/ /\ wk' = [wk EXCEPT ![c] = [pc |-> "done",
                                      out |-> OpenFailureItem(Backend(c))]]
          /\ permits' = [permits EXCEPT ![Backend(c)] = @ + 1]
          /\ UNCHANGED pages
    /\ UNCHANGED <<clinics, run, sched, results>>
    /\ UNCHANGED otherThanSched

\* login, next-day navigation, header/frame lookup and extraction run to
\* their end (a return or an exception caught by the worker's except); the
\* finally block then awaits page.close()
Protocol(c) ==
    /\ wk[c].pc = "open"
    /\ \E o \in ProtocolOutcomes(Backend(c)) :
          wk' = [wk EXCEPT ![c] = [pc |-> "closing", out |-> o]]
    /\ UNCHANGED <<clinics, run, sched, permits, pages, results>>
    /\ UNCHANGED otherThanSched

\* finally: await page.close()
PagesAfterCloseOnSuccessOnly(c, out) == IF out = "slots" THEN pages \ {c} ELSE pages

PagesAfterClose(c, out) == pages \ {c}

\* what the worker hands to gather: (name, doctor_slots or {})
Item(out) == IF out = "none" THEN "empty" ELSE out

\* page.close() completes, the worker returns and leaves the async with block
ClosePage(c) ==
    /\ wk[c].pc = "closing"
    /\ pages' = PagesAfterClose(c, wk[c].out)
    /\ wk' = [wk EXCEPT ![c] = [pc |-> "done", out |-> Item(wk[c].out)]]
    /\ permits' = [permits EXCEPT ![Backend(c)] = @ + 1]
    /\ UNCHANGED <<clinics, run, sched, results>>
    /\ UNCHANGED otherThanSched

\* for item in completed: if isinstance(item, Exception): continue
\*                        results[name] = slots
Collected(b) ==
    [c \in {d \in clinics[b] : wk[d].out # "exception"} |-> wk[c].out]

\* gather has every worker's item; the scheduler builds its dict and returns
Collect(b) ==
    /\ sched[b] = "gather"
    /\ \A c \in clinics[b] : wk[c].pc = "done"
    /\ results' = [results EXCEPT ![b] = Collected(b)]
    /\ sched' = [sched EXCEPT ![b] = "returned"]
    /\ UNCHANGED <<clinics, run, wk, permits, pages>>
    /\ UNCHANGED otherThanSched

\* a scheduler is called on its own with the clinics of its back-end
CallScheduler(b) ==
    /\ run.kind = "single" /\ run.pc = "start"
    /\ clinics[b] # {}
    /\ StartScheduler({b})
    /\ run' = [run EXCEPT !.pc = "waiting"]
    /\ UNCHANGED <<clinics, pages>>
    /\ UNCHANGED otherThanSched

(***************************************************************************)
(* A run over both back-ends: _scrape_all of the web worker thread         *)
(* (results.py) and main_async of the command line (main.py).              *)
(***************************************************************************)
RunKinds == {"web", "cli"}

\* _scrape_all: if stransa_clinics: r = await scrape_all_stransa_clinics(...)
WebScrapeSpa ==
    /\ run.kind = "web" /\ run.pc = "start"
    /\ IF clinics["stransa"] # {}
       THEN /\ StartScheduler({"stransa"})
            /\ run' = [run EXCEPT !.pc = "stransa"]
       ELSE /\ run' = [run EXCEPT !.pc = "stransa-done"]
            /\ UNCHANGED <<sched, wk, permits, results>>
    /\ UNCHANGED <<clinics, pages>>
    /\ UNCHANGED otherThanSched

\* _scrape_all: if dent_sys_clinics: r = await scrape_all_clinics(...)
\* the await of scrape_all_stransa_clinics has returned (or was skipped)
SpaNotAwaited == run.pc \in {"stransa-done", "stransa"}

SpaAwaited ==
    \/ run.pc = "stransa-done"
    \/ run.pc = "stransa" /\ sched["stransa"] = "returned"

WebScrapeLegacy ==
    /\ run.kind = "web"
    /\ SpaAwaited
    /\ IF clinics["dent-sys"] # {}
       THEN /\ StartScheduler({"dent-sys"})
            /\ run' = [run EXCEPT !.pc = "dent-sys"]
       ELSE /\ run' = [run EXCEPT !.pc = "done"]
            /\ UNCHANGED <<sched, wk, permits, results>>
    /\ UNCHANGED <<clinics, pages>>
    /\ UNCHANGED otherThanSched

\* _scrape_all: return results
WebScrapeReturn ==
    /\ run.kind = "web" /\ run.pc = "dent-sys"
    /\ sched["dent-sys"] = "returned"
    /\ run' = [run EXCEPT !.pc = "done"]
    /\ UNCHANGED <<clinics, sched, wk, permits, pages, results>>
    /\ UNCHANGED otherThanSched

\* main_async: scrape_results_list = await asyncio.gather(*scrape_tasks, ...)
\* with one scheduler coroutine per back-end that has clinics
CliGather ==
    /\ run.kind = "cli" /\ run.pc = "start"
    /\ StartScheduler({b \in Backends : clinics[b] # {}})
    /\ run' = [run EXCEPT !.pc = "gather"]
    /\ UNCHANGED <<clinics, pages>>
    /\ UNCHANGED otherThanSched

\* main_async: the gather of the schedulers completes
CliGathered ==
    /\ run.kind = "cli" /\ run.pc = "gather"
    /\ \A b \in Backends : clinics[b] # {} => sched[b] = "returned"
    /\ run' = [run EXCEPT !.pc = "done"]
    /\ UNCHANGED <<clinics, sched, wk, permits, pages, results>>
    /\ UNCHANGED otherThanSched

(***************************************************************************)
(* Row-time mapper: build_row_time_mapping.                                *)
(* A row descriptor is its first-cell text and its hasLinks flag.  A text  *)
(* is [kind, a, b]: "hmm" for H:MM (a = H, b = MM), "int" for a string of  *)
(* digits (a = its value), "empty" for '' and "other" for any other text.  *)
(***************************************************************************)
NoHour == -1
HmmText(h, m) == [kind |-> "hmm", a |-> h, b |-> m]
IntText(v) == [kind |-> "int", a |-> v, b |-> 0]
EmptyText == [kind |-> "empty", a |-> 0, b |-> 0]
OtherText == [kind |-> "other", a |-> 0, b |-> 0]

\* row_map = {}; current_hour = None; row_idx = 0
RowStart == [row_map |-> EmptyMap, current_hour |-> NoHour, row_idx |-> 0]

\* row_map[row_idx] = t; row_idx += 1; continue   (current_hour set to hour)
Emit(st, hour, t) ==
    [row_map |-> Put(st.row_map, st.row_idx, t),
     current_hour |-> hour,
     row_idx |-> st.row_idx + 1]

\* if row_data['hasLinks'] and current_hour is not None:
\*     if (row_idx - 1) in row_map: row_map[row_idx] = row_map[row_idx-1] + slot_interval
\*     row_idx += 1
LinkRow(st, row, interval) ==
    IF row.hasLinks /\ st.current_hour # NoHour
    THEN [st EXCEPT
            !.row_map = IF (st.row_idx - 1) \in DOMAIN st.row_map
                        THEN Put(st.row_map, st.row_idx,
                                 st.row_map[st.row_idx - 1] + interval)
                        ELSE st.row_map,
            !.row_idx = st.row_idx + 1]
    ELSE st

\* row_map.get(row_idx - 1, -1)
PrevTime(st) ==
    IF (st.row_idx - 1) \in DOMAIN st.row_map THEN st.row_map[st.row_idx - 1] ELSE -1

\* the body of the loop over rows_data, for one row
RowStep(st, row, interval) ==
    LET val == row.text.a
        candidate_as_minute == st.current_hour * 60 + val
    IN
    IF row.text.kind = "hmm"
    THEN Emit(st, row.text.a, row.text.a * 60 + row.text.b)
    ELSE IF row.text.kind = "int"
    THEN IF st.current_hour = NoHour
         THEN IF 0 <= val /\ val <= 23
              THEN Emit(st, val, val * 60)
              ELSE LinkRow(st, row, interval)
         ELSE IF 0 <= val /\ val < 60 /\ candidate_as_minute > PrevTime(st)
              THEN Emit(st, st.current_hour, candidate_as_minute)
              ELSE IF 0 <= val /\ val <= 23 /\ val > st.current_hour
              THEN Emit(st, val, val * 60)
              ELSE IF 0 <= val /\ val <= 23 /\ val = st.current_hour
                      /\ val * 60 > PrevTime(st)
              THEN Emit(st, val, val * 60)
              ELSE LinkRow(st, row, interval)
    ELSE LinkRow(st, row, interval)

RECURSIVE RowLoop(_, _, _, _)
\* for row_data in rows_data: ...   (from row i on)
RowLoop(rows, i, st, interval) ==
    IF i > Len(rows) THEN st
    ELSE RowLoop(rows, i + 1, RowStep(st, rows[i], interval), interval)

BuildRowTimeMapping(rows, interval) ==
    RowLoop(rows, 1, RowStart, interval).row_map

\* the first-cell texts and intervals the model draws its tables from
RowTexts ==
    {HmmText(9, 0), HmmText(10, 0), IntText(9), IntText(10), IntText(30),
     EmptyText, OtherText}
RowDescriptors == [text : RowTexts, hasLinks : BOOLEAN]
SlotIntervals == {5, 30}

\* H:MM labels of a table are in chronological order
LabelsInOrder(rows) ==
    \A i, j \in 1..Len(rows) :
        (i < j /\ rows[i].text.kind = "hmm" /\ rows[j].text.kind = "hmm")
            => rows[i].text.a * 60 + rows[i].text.b < rows[j].text.a * 60 + rows[j].text.b

\* a table labels its rows in one style: H:MM or bare numbers
OneLabelStyle(rows) ==
    ~ /\ \E i \in 1..Len(rows) : rows[i].text.kind = "hmm"
      /\ \E j \in 1..Len(rows) : rows[j].text.kind = "int"

RowTables ==
    {rows \in UNION {[1..n -> RowDescriptors] : n \in 0..MaxRows} :
        LabelsInOrder(rows) /\ OneLabelStyle(rows)}

\* no table has been mapped
RowsIdle ==
    /\ rows_data = <<>>
    /\ slot_interval = 5
    /\ row_map = EmptyMap
    /\ row_pc = "idle"

\* row_time_map = await build_row_time_mapping(frame, slot_interval)
MapRows ==
    /\ row_pc = "input"
    /\ row_map' = BuildRowTimeMapping(rows_data, slot_interval)
    /\ row_pc' = "mapped"
    /\ UNCHANGED <<rows_data, slot_interval>>
    /\ UNCHANGED otherThanRows

(***************************************************************************)
(* Slot analysis (src/slot_analyzer.py), analyze_results (src/main.py) and *)
(* the web-booking filter (web/routes/results.py).                         *)
(* A dict is a function; where the code iterates a dict the model iterates *)
(* the keys in their insertion order (AggClinics, AggStaff).               *)
(***************************************************************************)
RECURSIVE SortedInsert(_, _)
SortedInsert(s, x) ==
    IF s = <<>> THEN <<x>>
    ELSE IF x < Head(s) THEN <<x>> \o s
    ELSE <<Head(s)>> \o SortedInsert(Tail(s), x)

RECURSIVE Sorted(_)
\* sorted(slot_times)
Sorted(s) == IF s = <<>> THEN <<>> ELSE SortedInsert(Sorted(Tail(s)), Head(s))

Abs(x) == IF x < 0 THEN -x ELSE x

\* the positive differences of neighbouring sorted timestamps
Gaps(sorted_times) ==
    SelectSeq([i \in 1..(Len(sorted_times) - 1) |-> sorted_times[i + 1] - sorted_times[i]],
              LAMBDA g : g > 0)

\* the first gap, whatever its frequency
FirstGap(gaps) == gaps[1]

\* Counter(gaps).most_common(1)[0][0]: the most frequent gap, the first seen on a tie
MostCommon(gaps) ==
    LET n(g) == Cardinality({i \in 1..Len(gaps) : gaps[i] = g})
        best == CHOOSE i \in 1..Len(gaps) :
                    /\ \A j \in 1..Len(gaps) : n(gaps[j]) <= n(gaps[i])
                    /\ \A j \in 1..(i - 1) : n(gaps[j]) < n(gaps[i])
    IN gaps[best]

StandardIntervals == <<5, 10, 15, 20, 30>>

\* min((5, 10, 15, 20, 30), key=lambda x: abs(x - detected))
NearestInterval(detected) ==
    LET d(i) == Abs(StandardIntervals[i] - detected)
        best == CHOOSE i \in 1..Len(StandardIntervals) :
                    /\ \A j \in 1..Len(StandardIntervals) : d(j) >= d(i)
                    /\ \A j \in 1..(i - 1) : d(j) > d(i)
    IN StandardIntervals[best]

DetectSlotInterval(slot_times, default) ==
    IF Len(slot_times) < 2 THEN default
    ELSE LET gaps == Gaps(Sorted(slot_times)) IN
         IF gaps = <<>> THEN default
         ELSE LET detected == MostCommon(gaps) IN
              IF \E i \in 1..Len(StandardIntervals) : StandardIntervals[i] = detected
              THEN detected
              ELSE NearestInterval(detected)

RECURSIVE RunsFrom(_, _, _, _)
\* the loop over sorted_times[1:]: cur is the run being counted
RunsFrom(sorted_times, i, cur, interval) ==
    IF i > Len(sorted_times) THEN <<cur>>
    ELSE IF sorted_times[i] = cur.prev + interval
    THEN RunsFrom(sorted_times, i + 1,
                  [cur EXCEPT !.count = @ + 1, !.prev = sorted_times[i]], interval)
    ELSE <<cur>> \o RunsFrom(sorted_times, i + 1,
                             [start |-> sorted_times[i], count |-> 1,
                              prev |-> sorted_times[i]], interval)

\* the maximal runs of timestamps spaced by interval, in time order
Runs(slot_times, interval) ==
    IF slot_times = <<>> THEN <<>>
    ELSE LET sorted_times == Sorted(slot_times) IN
         RunsFrom(sorted_times, 2,
                  [start |-> sorted_times[1], count |-> 1, prev |-> sorted_times[1]],
                  interval)

\* the runs longer than required_consecutive only
CountConsecutiveBlocksStrict(slot_times, required_consecutive, interval) ==
    LET runs == SelectSeq(Runs(slot_times, interval),
                          LAMBDA r : r.count > required_consecutive)
    IN [i \in 1..Len(runs) |-> <<runs[i].start, runs[i].prev>>]

\* the block list count_consecutive_blocks returns (its count is the length)
CountConsecutiveBlocks(slot_times, required_consecutive, interval) ==
    LET runs == SelectSeq(Runs(slot_times, interval),
                          LAMBDA r : r.count >= required_consecutive)
    IN [i \in 1..Len(runs) |-> <<runs[i].start, runs[i].prev>>]

RECURSIVE SumCounts(_, _)
SumCounts(runs, consecutive_required) ==
    IF runs = <<>> THEN 0
    ELSE (Head(runs).count \div consecutive_required)
         + SumCounts(Tail(runs), consecutive_required)

\* the whole list counted as one run
Count30MinIgnoringGaps(slot_times, interval, consecutive_required) ==
    IF slot_times = <<>> THEN 0 ELSE Len(slot_times) \div consecutive_required

Count30MinBlocks(slot_times, interval, consecutive_required) ==
    SumCounts(Runs(slot_times, interval), consecutive_required)

\* f"{hours}:{mins:02d}" as the pair of its two numbers
MinutesToTimeStr(minutes) == <<minutes \div 60, minutes % 60>>

FormatTimeRange(start_minutes, end_minutes, interval) ==
    <<MinutesToTimeStr(start_minutes), MinutesToTimeStr(end_minutes + interval)>>

AnalyzeDoctorSlots(doctor_name, slot_times, interval, threshold_minutes) ==
    LET actual_interval == DetectSlotInterval(slot_times, interval)
        actual_consecutive == threshold_minutes \div actual_interval
        block_ranges == CountConsecutiveBlocks(slot_times, actual_consecutive,
                                               actual_interval)
    IN [doctor |-> doctor_name,
        blocks |-> Count30MinBlocks(slot_times, actual_interval, actual_consecutive),
        times |-> [i \in 1..Len(block_ranges) |->
                      FormatTimeRange(block_ranges[i][1], block_ranges[i][2],
                                      actual_interval)],
        threshold_minutes |-> threshold_minutes,
        raw_slot_times |-> Sorted(slot_times),
        slot_interval |-> actual_interval]

RECURSIVE SumBlocks(_)
\* sum(d['blocks'] for d in details)
SumBlocks(details) ==
    IF details = <<>> THEN 0 ELSE Head(details).blocks + SumBlocks(Tail(details))

CheckClinicAvailability(doctor_results, minimum_blocks) ==
    [result |-> SumBlocks(doctor_results) >= minimum_blocks,
     total |-> SumBlocks(doctor_results)]

AggClinics == <<"A", "B">>
AggStaff(c) == IF c = "A" THEN <<"X", "Y">> ELSE <<"Z">>
StaffSet(c) == {AggStaff(c)[i] : i \in 1..Len(AggStaff(c))}
SystemTypes == {"dent-sys", "stransa"}
StransaInterval == 15
DefaultThreshold == 30

\* the threshold of one staff member of a clinic
Threshold(clinic_config, doctor_name) ==
    IF doctor_name \in clinic_config.doctors THEN clinic_config.slot_threshold.doctor
    ELSE IF doctor_name \in clinic_config.hygienists
    THEN clinic_config.slot_threshold.hygienist
    ELSE DefaultThreshold

\* the loop body without the test of blocks > 0: every staff member is listed
AnalyzeClinicKeepAll(clinic_name, doctor_slots, minimum_blocks, interval, system_type, clinic_config) ==
    LET doctor_results == [i \in 1..Len(AggStaff(clinic_name)) |->
                        AnalyzeDoctorSlots(AggStaff(clinic_name)[i],
                                           doctor_slots[AggStaff(clinic_name)[i]],
                                           interval,
                                           Threshold(clinic_config,
                                                     AggStaff(clinic_name)[i]))]
        verdict == CheckClinicAvailability(doctor_results, minimum_blocks)
    IN [clinic |-> clinic_name,
        system |-> system_type,
        result |-> verdict.result,
        total_30min_blocks |-> verdict.total,
        details |-> doctor_results]

\* the body of the loop over scrape_results.items()
AnalyzeClinic(clinic_name, doctor_slots, minimum_blocks, interval, system_type, clinic_config) ==
    LET analyses == [i \in 1..Len(AggStaff(clinic_name)) |->
                        AnalyzeDoctorSlots(AggStaff(clinic_name)[i],
                                           doctor_slots[AggStaff(clinic_name)[i]],
                                           interval,
                                           Threshold(clinic_config,
                                                     AggStaff(clinic_name)[i]))]
        doctor_results == SelectSeq(analyses, LAMBDA a : a.blocks > 0)
        verdict == CheckClinicAvailability(doctor_results, minimum_blocks)
    IN [clinic |-> clinic_name,
        system |-> system_type,
        result |-> verdict.result,
        total_30min_blocks |-> verdict.total,
        details |-> doctor_results]

\* sum(1 for r in results if r['result'])
Available(clinic_results) ==
    Cardinality({i \in 1..Len(clinic_results) : clinic_results[i].result})

AnalyzeResults(scrape_results, slot_settings, system_type, staff_by_clinic) ==
    LET interval == IF system_type = "stransa" THEN StransaInterval
                    ELSE slot_settings.slot_interval_minutes
        clinic_results ==
            [i \in 1..Len(AggClinics) |->
                AnalyzeClinic(AggClinics[i], scrape_results[AggClinics[i]],
                              slot_settings.minimum_blocks_required, interval,
                              system_type, staff_by_clinic[AggClinics[i]])]
    IN [results |-> clinic_results,
        summary |-> [total_clinics |-> Len(clinic_results),
                     clinics_with_availability |-> Available(clinic_results)]]

\* a filter that leaves a clinic without an allow-list as it is
FilterClinicExempt(result, web_booking, min_blocks) ==
    LET filtered_details == SelectSeq(result.details,
                                      LAMBDA d : d.doctor \in web_booking)
    IN IF web_booking = {} THEN result
       ELSE [result EXCEPT !.details = filtered_details,
                           !.total_30min_blocks = SumBlocks(filtered_details),
                           !.result = SumBlocks(filtered_details) >= min_blocks]

\* the body of the loop over data['results'] in apply_web_booking_filter
FilterClinic(result, web_booking, min_blocks) ==
    LET filtered_details == SelectSeq(result.details,
                                      LAMBDA d : d.doctor \in web_booking)
    IN IF web_booking = {}
       THEN [result EXCEPT !.details = <<>>,
                           !.total_30min_blocks = 0,
                           !.result = FALSE]
       ELSE [result EXCEPT !.details = filtered_details,
                           !.total_30min_blocks = SumBlocks(filtered_details),
                           !.result = SumBlocks(filtered_details) >= min_blocks]

\* the loop body with the total left as it was before the filter
MainFilterClinicStaleTotal(result, web_booking, min_blocks) ==
    LET filtered == SelectSeq(result.details, LAMBDA d : d.doctor \in web_booking)
    IN IF web_booking = {}
       THEN [result EXCEPT !.details = <<>>,
                           !.total_30min_blocks = 0,
                           !.result = FALSE]
       ELSE [result EXCEPT !.details = filtered,
                           !.result = result.total_30min_blocks >= min_blocks]

\* the body of the loop over data['results'] in _apply_web_booking_filter
MainFilterClinic(result, web_booking, min_blocks) ==
    LET filtered == SelectSeq(result.details, LAMBDA d : d.doctor \in web_booking)
    IN IF web_booking = {}
       THEN [result EXCEPT !.details = <<>>,
                           !.total_30min_blocks = 0,
                           !.result = FALSE]
       ELSE [result EXCEPT !.details = filtered,
                           !.total_30min_blocks = SumBlocks(filtered),
                           !.result = SumBlocks(filtered) >= min_blocks]

\* _apply_web_booking_filter of the dashboard route: the summary is always rewritten
MainApplyWebBookingFilter(data, staff_by_clinic, settings) ==
    LET filtered == [i \in 1..Len(data.results) |->
                        MainFilterClinic(data.results[i],
                                         staff_by_clinic[data.results[i].clinic].web_booking,
                                         settings.minimum_blocks_required)]
    IN [results |-> filtered,
        summary |-> [data.summary EXCEPT !.clinics_with_availability = Available(filtered)]]

ApplyWebBookingFilter(data, staff_by_clinic, settings) ==
    LET filtered == [i \in 1..Len(data.results) |->
                        FilterClinic(data.results[i],
                                     staff_by_clinic[data.results[i].clinic].web_booking,
                                     settings.minimum_blocks_required)]
        has_filter == \E i \in 1..Len(data.results) :
                        staff_by_clinic[data.results[i].clinic].web_booking # {}
    IN [results |-> filtered,
        summary |-> IF has_filter
                    THEN [data.summary EXCEPT
                            !.clinics_with_availability = Available(filtered)]
                    ELSE data.summary]

\* the inputs the model draws from
\* quarter-hour timestamps from 9:00 on
SlotGrid == {540 + 15 * k : k \in 0..(MaxSlots - 1)}

RECURSIVE SeqOfSet(_)
\* the members of a set of minutes in increasing order
SeqOfSet(S) ==
    IF S = {} THEN <<>>
    ELSE LET m == CHOOSE x \in S : \A y \in S : x <= y
         IN <<m>> \o SeqOfSet(S \ {m})

SlotLists == {SeqOfSet(S) : S \in SUBSET SlotGrid}
\* the lists of the second staff member of clinic A
HygienistLists == {<<>>, <<540, 555>>}
ScrapeResults ==
    {[c \in {"A", "B"} |-> IF c = "A" THEN a ELSE b] :
        a \in {[s \in StaffSet("A") |-> IF s = "X" THEN x ELSE y] :
                  x \in SlotLists, y \in HygienistLists},
        b \in [StaffSet("B") -> SlotLists]}
ThresholdChoices == {30, 60}
ClinicConfigs(c) ==
    UNION {{[doctors |-> IF c = "A" THEN {"X"} ELSE {},
             hygienists |-> IF c = "A" THEN {"Y"} ELSE {},
             orthodontists |-> o,
             slot_threshold |-> [doctor |-> t, hygienist |-> DefaultThreshold,
                                 orthodontist |-> 60],
             web_booking |-> wb] :
               o \in IF c = "A" /\ t = DefaultThreshold THEN {{}, {"X"}} ELSE {{}},
               wb \in SUBSET StaffSet(c)} :
           t \in IF c = "A" THEN ThresholdChoices ELSE {DefaultThreshold}}
StaffRules ==
    {[c \in {"A", "B"} |-> IF c = "A" THEN a ELSE b] :
        a \in ClinicConfigs("A"), b \in ClinicConfigs("B")}
DefaultSlotInterval == 5
DefaultConsecutive == 6
SlotSettings ==
    {[consecutive_slots_required |-> DefaultConsecutive,
      minimum_blocks_required |-> m,
      slot_interval_minutes |-> DefaultSlotInterval] : m \in 0..MaxMinimum}
NoData == [results |-> <<>>,
           summary |-> [total_clinics |-> 0, clinics_with_availability |-> 0]]

\* nothing has been analysed
AggIdle ==
    /\ agg_scrape = EmptyMap
    /\ agg_system = None
    /\ agg_settings = EmptyMap
    /\ agg_rules = EmptyMap
    /\ agg_data = NoData
    /\ agg_pc = "idle"

\* analysis = analyze_results(result, slot_settings, label, staff_by_clinic)
Analyze ==
    /\ agg_pc = "input"
    /\ agg_data' = AnalyzeResults(agg_scrape, agg_settings, agg_system, agg_rules)
    /\ agg_pc' = "analyzed"
    /\ UNCHANGED <<agg_scrape, agg_system, agg_settings, agg_rules>>
    /\ UNCHANGED otherThanAgg

\* data = apply_web_booking_filter(data, staff_rules, settings)
Filter ==
    /\ agg_pc = "analyzed"
    /\ agg_data' = ApplyWebBookingFilter(agg_data, agg_rules, agg_settings)
    /\ agg_pc' = "filtered"
    /\ UNCHANGED <<agg_scrape, agg_system, agg_settings, agg_rules>>
    /\ UNCHANGED otherThanAgg

\* result = _apply_web_booking_filter(result) in the dashboard route
DashboardFilter ==
    /\ agg_pc = "analyzed"
    /\ agg_data' = MainApplyWebBookingFilter(agg_data, agg_rules, agg_settings)
    /\ agg_pc' = "dashboard"
    /\ UNCHANGED <<agg_scrape, agg_system, agg_settings, agg_rules>>
    /\ UNCHANGED otherThanAgg

(***************************************************************************)
(* Browser pool: run_async submits the run's coroutine to the pool's loop  *)
(* and the worker thread waits for the future with a timeout.              *)
(***************************************************************************)
PoolRuns == 1..MaxRuns
RunTimeout == 600

\* the pool after init_browser and before any run
PoolIdle ==
    /\ pool_thread = [r \in PoolRuns |-> "none"]
    /\ pool_coro = [r \in PoolRuns |-> "none"]
    /\ pool_pages = [r \in PoolRuns |-> 0]
    /\ pool_opened = [r \in PoolRuns |-> 0]
    /\ pool_elapsed = [r \in PoolRuns |-> 0]
    /\ pool_result = [r \in PoolRuns |-> None]
    /\ pool_browser = TRUE

\* future = asyncio.run_coroutine_threadsafe(coro, _loop); the worker of
\* run r exists only after the worker of run r - 1 has ended
RunAsync(r) ==
    /\ pool_thread[r] = "none"
    /\ \A q \in PoolRuns : q < r => pool_thread[q] \in {"returned", "timed_out"}
    /\ pool_thread' = [pool_thread EXCEPT ![r] = "waiting"]
    /\ pool_coro' = [pool_coro EXCEPT ![r] = "running"]
    /\ UNCHANGED <<pool_pages, pool_opened, pool_elapsed, pool_result, pool_browser>>
    /\ UNCHANGED otherThanPool

\* the coroutine opens a page: page = await browser.new_page()
PoolOpenPage(r) ==
    /\ pool_coro[r] = "running"
    /\ pool_opened[r] < MaxPoolPages
    /\ pool_pages' = [pool_pages EXCEPT ![r] = @ + 1]
    /\ pool_opened' = [pool_opened EXCEPT ![r] = @ + 1]
    /\ UNCHANGED <<pool_thread, pool_coro, pool_elapsed, pool_result, pool_browser>>
    /\ UNCHANGED otherThanPool

\* the coroutine closes a page: finally: await page.close()
PoolClosePage(r) ==
    /\ pool_coro[r] = "running"
    /\ pool_pages[r] > 0
    /\ pool_pages' = [pool_pages EXCEPT ![r] = @ - 1]
    /\ UNCHANGED <<pool_thread, pool_coro, pool_opened, pool_elapsed, pool_result, pool_browser>>
    /\ UNCHANGED otherThanPool

\* the coroutine returns; a worker still waiting gets the result
CoroReturn(r) ==
    /\ pool_coro[r] = "running"
    /\ pool_pages[r] = 0
    /\ pool_coro' = [pool_coro EXCEPT ![r] = "finished"]
    /\ IF pool_thread[r] = "waiting"
       THEN /\ pool_thread' = [pool_thread EXCEPT ![r] = "returned"]
            /\ pool_result' = [pool_result EXCEPT ![r] = "True"]
       ELSE UNCHANGED <<pool_thread, pool_result>>
    /\ UNCHANGED <<pool_pages, pool_opened, pool_elapsed, pool_browser>>
    /\ UNCHANGED otherThanPool

\* time passes while the worker waits in future.result(timeout=600)
PoolWait(r) ==
    /\ pool_thread[r] = "waiting"
    /\ pool_elapsed[r] < RunTimeout
    /\ pool_elapsed' = [pool_elapsed EXCEPT ![r] = @ + (RunTimeout \div 2)]
    /\ UNCHANGED <<pool_thread, pool_coro, pool_pages, pool_opened, pool_result, pool_browser>>
    /\ UNCHANGED otherThanPool

\* what future.result(timeout) does to the coroutine when it times out: nothing
CoroAfterTimeout(coro, r) == coro

\* future.result raises TimeoutError; _run_check_thread catches it:
\* _check_result = False, and the thread ends
FutureTimeout(r) ==
    /\ pool_thread[r] = "waiting"
    /\ pool_elapsed[r] >= RunTimeout
    /\ pool_thread' = [pool_thread EXCEPT ![r] = "timed_out"]
    /\ pool_result' = [pool_result EXCEPT ![r] = "False"]
    /\ pool_coro' = CoroAfterTimeout(pool_coro, r)
    /\ UNCHANGED <<pool_pages, pool_opened, pool_elapsed, pool_browser>>
    /\ UNCHANGED otherThanPool

(***************************************************************************)
(* check_date of the documents a run produces.  A date is its day number;  *)
(* strftime('%Y-%m-%d') of different days gives different strings.         *)
(***************************************************************************)
JstOffset == 9
\* the clock starts one day after day 0 so that every local time is positive
FirstHour == 24
HostZones == {-8, 0, JstOffset}
DateProducers == {"analyze_results", "main_async", "run_check"}
NoArtifact == [by |-> None, made_at |-> 0, check_date |-> 0]

\* the calendar day of instant t on a clock offset hours ahead of UTC
DayOf(t, offset) == (t + offset) \div 24

\* datetime.now(): the host's local time, no zone attached
HostToday == DayOf(date_now, date_zone)

\* datetime.now(JST)
JstToday == DayOf(date_now, JstOffset)

DateIdle ==
    /\ date_now = FirstHour
    /\ date_zone = 0
    /\ date_artifact = NoArtifact

\* an hour passes
HourPasses ==
    /\ date_now < FirstHour + MaxHours
    /\ date_now' = date_now + 1
    /\ UNCHANGED <<date_zone, date_artifact>>
    /\ UNCHANGED otherThanDate

\* check_date = (datetime.now() + timedelta(days=1)).strftime('%Y-%m-%d')
AnalyzeResultsDate ==
    /\ date_artifact' = [by |-> "analyze_results", made_at |-> date_now,
                         check_date |-> HostToday + 1]
    /\ UNCHANGED <<date_now, date_zone>>
    /\ UNCHANGED otherThanDate

\* main_async: check_date = (datetime.now() + timedelta(days=1)).strftime(...)
MainAsyncDate ==
    /\ date_artifact' = [by |-> "main_async", made_at |-> date_now,
                         check_date |-> HostToday + 1]
    /\ UNCHANGED <<date_now, date_zone>>
    /\ UNCHANGED otherThanDate

\* _run_check_thread: check_date = (datetime.now(JST) + timedelta(days=1)).strftime(...)
RunCheckDate ==
    /\ date_artifact' = [by |-> "run_check", made_at |-> date_now,
                         check_date |-> JstToday + 1]
    /\ UNCHANGED <<date_now, date_zone>>
    /\ UNCHANGED otherThanDate

(***************************************************************************)
(* The slot-analyzer functions called on their own.  A call either returns *)
(* or raises; an_out holds the returned fields, the others at their zero.  *)
(***************************************************************************)
AnalyzerTimes == {540, 550, 555, 560, 590}
AnalyzerLists == UNION {[1..n -> AnalyzerTimes] : n \in 0..MaxLen}
AnalyzerIntervals == {5, 10, 15}
AnalyzerThresholds == {10, 30, 60}
RequiredRuns == 1..MaxRequired
NoArgs == [required |-> 0, threshold |-> 0]
NoOut == [raised |-> FALSE, interval |-> 0, blocks |-> 0, ranges |-> <<>>,
          times |-> <<>>, raw |-> <<>>]

\* count_30min_blocks divides by consecutive_required once the list is not empty
Count30MinBlocksRaises(slot_times, consecutive_required) ==
    slot_times # <<>> /\ consecutive_required = 0

\* analyze_doctor_slots divides the threshold by the detected interval and
\* hands the quotient to count_30min_blocks
AnalyzeDoctorSlotsRaises(slot_times, interval, threshold_minutes) ==
    LET actual_interval == DetectSlotInterval(slot_times, interval) IN
    IF actual_interval = 0 THEN TRUE
    ELSE Count30MinBlocksRaises(slot_times, threshold_minutes \div actual_interval)

AnalyzerIdle ==
    /\ an_times = <<>>
    /\ an_interval = 0
    /\ an_call = None
    /\ an_args = NoArgs
    /\ an_out = NoOut

\* detect_slot_interval(an_times, an_interval)
CallDetectSlotInterval ==
    /\ an_call = None /\ an_interval > 0
    /\ an_call' = "detect_slot_interval"
    /\ an_out' = [NoOut EXCEPT !.interval = DetectSlotInterval(an_times, an_interval)]
    /\ UNCHANGED <<an_times, an_interval, an_args>>
    /\ UNCHANGED otherThanAnalyzer

\* count_consecutive_blocks(an_times, r, an_interval)
CallCountConsecutiveBlocks ==
    /\ an_call = None /\ an_interval > 0
    /\ \E r \in RequiredRuns :
        /\ an_args' = [NoArgs EXCEPT !.required = r]
        /\ an_out' = [NoOut EXCEPT
                        !.ranges = CountConsecutiveBlocks(an_times, r, an_interval),
                        !.blocks = Len(CountConsecutiveBlocks(an_times, r, an_interval))]
    /\ an_call' = "count_consecutive_blocks"
    /\ UNCHANGED <<an_times, an_interval>>
    /\ UNCHANGED otherThanAnalyzer

\* count_30min_blocks(an_times, an_interval, r)
CallCount30MinBlocks ==
    /\ an_call = None /\ an_interval > 0
    /\ \E r \in RequiredRuns :
        /\ an_args' = [NoArgs EXCEPT !.required = r]
        /\ an_out' = IF Count30MinBlocksRaises(an_times, r)
                     THEN [NoOut EXCEPT !.raised = TRUE]
                     ELSE [NoOut EXCEPT
                             !.blocks = Count30MinBlocks(an_times, an_interval, r)]
    /\ an_call' = "count_30min_blocks"
    /\ UNCHANGED <<an_times, an_interval>>
    /\ UNCHANGED otherThanAnalyzer

\* analyze_doctor_slots(name, an_times, 6, an_interval, threshold_minutes=t)
CallAnalyzeDoctorSlots ==
    /\ an_call = None /\ an_interval > 0
    /\ \E t \in AnalyzerThresholds :
        /\ an_args' = [NoArgs EXCEPT !.threshold = t]
        /\ an_out' = IF AnalyzeDoctorSlotsRaises(an_times, an_interval, t)
                     THEN [NoOut EXCEPT !.raised = TRUE]
                     ELSE LET a == AnalyzeDoctorSlots("X", an_times, an_interval, t)
                          IN [NoOut EXCEPT !.interval = a.slot_interval,
                                           !.blocks = a.blocks,
                                           !.times = a.times,
                                           !.raw = a.raw_slot_times]
    /\ an_call' = "analyze_doctor_slots"
    /\ UNCHANGED <<an_times, an_interval>>
    /\ UNCHANGED otherThanAnalyzer

\* the recomputation with the interval default in place of the stored one
RecalculateDetailDefaultInterval(detail, threshold) ==
    LET consec == threshold \div DefaultSlotInterval
        ranges == CountConsecutiveBlocks(detail.raw_slot_times, consec, DefaultSlotInterval)
    IN [detail EXCEPT
          !.blocks = Count30MinBlocks(detail.raw_slot_times, DefaultSlotInterval, consec),
          !.times = [i \in 1..Len(ranges) |->
                        FormatTimeRange(ranges[i][1], ranges[i][2], DefaultSlotInterval)],
          !.threshold_minutes = threshold]

\* _recalculate_detail(detail, threshold) on a detail that has raw_slot_times
RecalculateDetail(detail, threshold) ==
    LET interval == detail.slot_interval
        consec == threshold \div interval
        ranges == CountConsecutiveBlocks(detail.raw_slot_times, consec, interval)
    IN [detail EXCEPT
          !.blocks = Count30MinBlocks(detail.raw_slot_times, interval, consec),
          !.times = [i \in 1..Len(ranges) |->
                        FormatTimeRange(ranges[i][1], ranges[i][2], interval)],
          !.threshold_minutes = threshold]

\* the detail analyze_doctor_slots returned, as it is persisted
PersistedDetail ==
    [doctor |-> "X", blocks |-> an_out.blocks, times |-> an_out.times,
     threshold_minutes |-> an_args.threshold, raw_slot_times |-> an_out.raw,
     slot_interval |-> an_out.interval]

\* _recalculate_detail(detail, t) on the detail of the analysis
CallRecalculateDetail ==
    /\ an_call \in {"analyze_doctor_slots", "_recalculate_detail"}
    /\ ~an_out.raised
    /\ \E t \in AnalyzerThresholds :
        /\ an_args' = [an_args EXCEPT !.threshold = t]
        /\ an_out' = IF an_out.raw = <<>> THEN an_out
                     ELSE IF Count30MinBlocksRaises(an_out.raw, t \div an_out.interval)
                     THEN [an_out EXCEPT !.raised = TRUE]
                     ELSE [an_out EXCEPT
                             !.blocks = RecalculateDetail(PersistedDetail, t).blocks,
                             !.times = RecalculateDetail(PersistedDetail, t).times]
    /\ an_call' = "_recalculate_detail"
    /\ UNCHANGED <<an_times, an_interval>>
    /\ UNCHANGED otherThanAnalyzer

(***************************************************************************)
(* Legacy extraction: parse_schedule_from_iframe turns the "new" anchors   *)
(* ts_set_new(col, row) into one list of minutes per staff name.           *)
(***************************************************************************)
ParseInterval == 5
DefaultStartHour == 8
DefaultStartMinute == 30
\* headers: column index -> staff name; column 3 is not a staff column
ParseHeaders == (1 :> "X") @@ (2 :> "Y")
AnchorCols == {1, 2, 3}
AnchorRows == 0..2
AnchorLists == UNION {[1..n -> AnchorCols \X AnchorRows] : n \in 0..MaxAnchors}
ParseTables ==
    {<<>>,
     <<[text |-> HmmText(9, 0), hasLinks |-> TRUE]>>,
     <<[text |-> HmmText(9, 0), hasLinks |-> TRUE], [text |-> EmptyText, hasLinks |-> TRUE],
       [text |-> EmptyText, hasLinks |-> TRUE]>>}

RECURSIVE StartTimeFrom(_, _)
\* detect_start_time_from_iframe: the first usable first-cell text from row i on
StartTimeFrom(rows, i) ==
    IF i > Len(rows) THEN DefaultStartHour * 60 + DefaultStartMinute
    ELSE IF /\ rows[i].text.kind = "hmm"
            /\ 0 <= rows[i].text.a /\ rows[i].text.a <= 23
            /\ 0 <= rows[i].text.b /\ rows[i].text.b < 60
    THEN rows[i].text.a * 60 + rows[i].text.b
    ELSE IF rows[i].text.kind = "int" /\ 6 <= rows[i].text.a /\ rows[i].text.a <= 12
    THEN rows[i].text.a * 60
    ELSE StartTimeFrom(rows, i + 1)

DetectStartTime(rows) == StartTimeFrom(rows, 1)

\* min(row_time_map.keys(), key=lambda k: abs(k - row_idx)): the first key
\* in insertion (increasing) order among the nearest ones
ClosestRow(row_time_map, row_idx) ==
    CHOOSE k \in DOMAIN row_time_map :
        /\ \A j \in DOMAIN row_time_map : Abs(j - row_idx) >= Abs(k - row_idx)
        /\ \A j \in DOMAIN row_time_map : Abs(j - row_idx) = Abs(k - row_idx) => k <= j

\* the minutes of row row_idx
TimeOfRow(row_time_map, base_time_minutes, row_idx, interval) ==
    IF DOMAIN row_time_map # {}
    THEN IF row_idx \in DOMAIN row_time_map
         THEN row_time_map[row_idx]
         ELSE row_time_map[ClosestRow(row_time_map, row_idx)]
              + (row_idx - ClosestRow(row_time_map, row_idx)) * interval
    ELSE base_time_minutes + row_idx * interval

\* the body of the loop over new_links for one anchor
AnchorStep(doctor_slots, anchor, headers, row_time_map, base_time_minutes, interval) ==
    IF anchor[1] \notin DOMAIN headers THEN doctor_slots
    ELSE Put(doctor_slots, headers[anchor[1]],
             (IF headers[anchor[1]] \in DOMAIN doctor_slots
              THEN doctor_slots[headers[anchor[1]]] ELSE <<>>)
             \o <<TimeOfRow(row_time_map, base_time_minutes, anchor[2], interval)>>)

RECURSIVE AnchorLoop(_, _, _, _, _, _, _)
AnchorLoop(anchors, i, doctor_slots, headers, row_time_map, base_time_minutes, interval) ==
    IF i > Len(anchors) THEN doctor_slots
    ELSE AnchorLoop(anchors, i + 1,
                    AnchorStep(doctor_slots, anchors[i], headers, row_time_map,
                               base_time_minutes, interval),
                    headers, row_time_map, base_time_minutes, interval)

ParseScheduleFromIframe(rows, anchors, headers, interval) ==
    AnchorLoop(anchors, 1, EmptyMap, headers, BuildRowTimeMapping(rows, interval),
               DetectStartTime(rows), interval)

ParseIdle ==
    /\ ps_rows = <<>>
    /\ ps_anchors = <<>>
    /\ ps_slots = EmptyMap
    /\ ps_pc = "idle"

\* doctor_slots = await parse_schedule_from_iframe(frame, headers, slot_interval)
ParseSchedule ==
    /\ ps_pc = "input"
    /\ ps_slots' = ParseScheduleFromIframe(ps_rows, ps_anchors, ParseHeaders, ParseInterval)
    /\ ps_pc' = "parsed"
    /\ UNCHANGED <<ps_rows, ps_anchors>>
    /\ UNCHANGED otherThanParse

(***************************************************************************)
(* SPA extraction: get_stransa_empty_slots reads the schedule table and    *)
(* appends the time of a row for every cell of a chair column that passes  *)
(* the text, span, class and style tests.  A style attribute is a          *)
(* sequence of declarations <<property, value>>; "w in style_lower" is     *)
(* the occurrence of the word w in one of them.                            *)
(***************************************************************************)
\* chairs: column index -> header text of the schedule table
SpaChairs == (1 :> "Z")
BlockedIndicators ==
    {"closed", "blocked", "disabled", "holiday", "off", "gray", "lunch", "break",
     "reserve", "past", "empty", "none", "unavailable", "inactive"}
WhiteWords == {"#fff", "white", "transparent", "rgb(255"}

\* first cell of a row: a time label h:mm or a text without ':'
SpaLabels == {[colon |-> TRUE, hours |-> 9, mins |-> 0], [colon |-> TRUE, hours |-> 9, mins |-> 15],
              [colon |-> FALSE, hours |-> 0, mins |-> 0]}
CellTexts == {"", "nbsp", "booked"}
SpanValues == {"", "1", "2"}
ClassNames == {"", "slot", "Closed"}
CellStyles ==
    {<<>>,
     <<<<"background", "#fff">>>>,
     <<<<"background", "red">>>>,
     <<<<"background", "red">>, <<"color", "white">>>>,
     <<<<"display", "none">>>>,
     <<<<"display", "block">>, <<"border", "none">>>>}
SpaCells ==
    [text : CellTexts, colspan : SpanValues, rowspan : {"", "2"},
     className : ClassNames, style : CellStyles]
SpaRowSet == [label : SpaLabels, cell : SpaCells]
SpaTables == UNION {[1..n -> SpaRowSet] : n \in 1..MaxSpaRows}

\* cell_text with non-breaking and zero-width spaces removed, stripped
CellClean(text) == IF text = "nbsp" THEN "" ELSE text
\* str.lower() of a class name
Lower(className) == IF className = "Closed" THEN "closed" ELSE className
\* w in style_lower
StyleHas(style, w) == \E i \in 1..Len(style) : \E k \in 1..Len(style[i]) : style[i][k] = w

\* the tests of one cell, in the order of the loop body
SpaCellPasses(cell_data) ==
    /\ CellClean(cell_data.text) = ""
    /\ ~(cell_data.colspan # "" /\ cell_data.colspan # "1")
    /\ ~(cell_data.rowspan # "" /\ cell_data.rowspan # "1")
    /\ Lower(cell_data.className) \notin BlockedIndicators
    /\ (cell_data.style # <<>> =>
          /\ (StyleHas(cell_data.style, "background") =>
                \E w \in WhiteWords : StyleHas(cell_data.style, w))
          /\ ~(StyleHas(cell_data.style, "display") /\ StyleHas(cell_data.style, "none")))

\* the loop over the chair columns for one row
SpaRowStep(chair_slots, row_data) ==
    IF ~row_data.label.colon THEN chair_slots
    ELSE IF ~SpaCellPasses(row_data.cell) THEN chair_slots
    ELSE Put(chair_slots, SpaChairs[1],
             (IF SpaChairs[1] \in DOMAIN chair_slots THEN chair_slots[SpaChairs[1]] ELSE <<>>)
             \o <<row_data.label.hours * 60 + row_data.label.mins>>)

RECURSIVE SpaRowLoop(_, _, _)
SpaRowLoop(rows, i, chair_slots) ==
    IF i > Len(rows) THEN chair_slots
    ELSE SpaRowLoop(rows, i + 1, SpaRowStep(chair_slots, rows[i]))

GetStransaEmptySlots(rows) == SpaRowLoop(rows, 1, EmptyMap)

SpaIdle ==
    /\ sp_rows = <<>>
    /\ sp_slots = EmptyMap
    /\ sp_pc = "idle"

\* chair_slots = await get_stransa_empty_slots(page)
ExtractSpa ==
    /\ sp_pc = "input"
    /\ sp_slots' = GetStransaEmptySlots(sp_rows)
    /\ sp_pc' = "extracted"
    /\ UNCHANGED sp_rows
    /\ UNCHANGED otherThanSpa

(***************************************************************************)
(* Browser pool start-up: init_browser starts the loop thread, submits     *)
(* _start_browser to _loop and sets _ready when the launch has succeeded;  *)
(* a web run calls get_browser and hands the browser to the schedulers.    *)
(***************************************************************************)
InitCalls == 1..MaxInits
WebRuns == 1..NumWebRuns
NoLoop == 0
NoBrowser == 0
\* the browser launched by init_browser call i, and the one a scheduler
\* launches for web run c when it is given no browser
PoolBrowser(i) == i
OwnBrowser(c) == MaxInits + c
NoInit == [pc |-> "idle", thread |-> "none", coro |-> "none"]
NoGet == [pc |-> "idle", value |-> NoBrowser]

StartupIdle ==
    /\ bp_init = [i \in InitCalls |-> NoInit]
    /\ bp_loop = NoLoop
    /\ bp_browser = NoBrowser
    /\ bp_ready = FALSE
    /\ bp_launched = {}
    /\ bp_get = [c \in WebRuns |-> NoGet]

\* init_browser: _thread = threading.Thread(target=_run_loop); _thread.start()
InitBrowser(i) ==
    /\ bp_init[i].pc = "idle"
    /\ \A j \in InitCalls : j < i => bp_init[j].pc \in {"ready", "failed"}
    /\ bp_init' = [bp_init EXCEPT ![i].pc = "started", ![i].thread = "new"]
    /\ UNCHANGED <<bp_loop, bp_browser, bp_ready, bp_launched, bp_get>>
    /\ UNCHANGED otherThanStartup

\* _run_loop in the new thread: _loop = asyncio.new_event_loop(); run_forever()
RunLoop(i) ==
    /\ bp_init[i].thread = "new"
    /\ bp_loop' = i
    /\ bp_init' = [bp_init EXCEPT ![i].thread = "running"]
    /\ UNCHANGED <<bp_browser, bp_ready, bp_launched, bp_get>>
    /\ UNCHANGED otherThanStartup

\* after time.sleep(0.1): asyncio.run_coroutine_threadsafe(_start_browser(), _loop),
\* which raises when _loop is still None
SubmitStartBrowser(i) ==
    /\ bp_init[i].pc = "started"
    /\ bp_init' = IF bp_loop = NoLoop
                  THEN [bp_init EXCEPT ![i].pc = "failed"]
                  ELSE [bp_init EXCEPT ![i].pc = "waiting", ![i].coro = "pending"]
    /\ UNCHANGED <<bp_loop, bp_browser, bp_ready, bp_launched, bp_get>>
    /\ UNCHANGED otherThanStartup

\* _start_browser on the loop: _browser = await _playwright.chromium.launch(...),
\* or the start of Playwright or the launch raises
StartBrowser(i) ==
    /\ bp_init[i].coro = "pending"
    /\ \E ok \in BOOLEAN :
        IF ok
        THEN /\ bp_browser' = PoolBrowser(i)
             /\ bp_launched' = bp_launched \cup {PoolBrowser(i)}
             /\ bp_init' = [bp_init EXCEPT ![i].coro = "launched"]
        ELSE /\ bp_init' = [bp_init EXCEPT ![i].coro = "raised"]
             /\ UNCHANGED <<bp_browser, bp_launched>>
    /\ UNCHANGED <<bp_loop, bp_ready, bp_get>>
    /\ UNCHANGED otherThanStartup

\* future.result(timeout=600) returns, raises what the coroutine raised, or
\* times out while the coroutine is pending; _ready.set() follows a return
InitResult(i) ==
    /\ bp_init[i].pc = "waiting"
    /\ IF bp_init[i].coro = "launched"
       THEN /\ bp_init' = [bp_init EXCEPT ![i].pc = "ready"]
            /\ bp_ready' = TRUE
       ELSE /\ bp_init' = [bp_init EXCEPT ![i].pc = "failed"]
            /\ UNCHANGED bp_ready
    /\ UNCHANGED <<bp_loop, bp_browser, bp_launched, bp_get>>
    /\ UNCHANGED otherThanStartup

\* _ready.wait(timeout=600) returns True at once for any caller
WaitAlwaysTrue(ready) == TRUE

\* _ready.wait(timeout=600): True when the event is set
WaitReturnsTrue(ready) == ready

\* browser = get_browser() in _run_check_thread
GetBrowser(c) ==
    /\ bp_get[c].pc = "idle"
    /\ bp_get' = [bp_get EXCEPT ![c].pc = "waiting"]
    /\ UNCHANGED <<bp_init, bp_loop, bp_browser, bp_ready, bp_launched>>
    /\ UNCHANGED otherThanStartup

\* the wait ends with the event set: return _browser
GetBrowserReturn(c) ==
    /\ bp_get[c].pc = "waiting"
    /\ WaitReturnsTrue(bp_ready)
    /\ bp_get' = [bp_get EXCEPT ![c].pc = "returned", ![c].value = bp_browser]
    /\ UNCHANGED <<bp_init, bp_loop, bp_browser, bp_ready, bp_launched>>
    /\ UNCHANGED otherThanStartup

\* the wait ends after 600 s with the event not set: raise RuntimeError
GetBrowserTimeout(c) ==
    /\ bp_get[c].pc = "waiting"
    /\ ~bp_ready
    /\ bp_get' = [bp_get EXCEPT ![c].pc = "error"]
    /\ UNCHANGED <<bp_init, bp_loop, bp_browser, bp_ready, bp_launched>>
    /\ UNCHANGED otherThanStartup

\* scrape_all_clinics(..., browser=browser): own_browser = browser is None,
\* and a scheduler without a browser launches its own
ScrapeWithBrowser(c) ==
    /\ bp_get[c].pc = "returned"
    /\ bp_launched' = IF bp_get[c].value = NoBrowser
                      THEN bp_launched \cup {OwnBrowser(c)}
                      ELSE bp_launched
    /\ bp_get' = [bp_get EXCEPT ![c].pc = "scraped"]
    /\ UNCHANGED <<bp_init, bp_loop, bp_browser, bp_ready>>
    /\ UNCHANGED otherThanStartup

(***************************************************************************)
(* TaskManager() called by several threads at first use: __new__ with its  *)
(* double-checked lock, then __init__, then create_task.                   *)
(***************************************************************************)
Ctors == 1..NumCtors

SingletonIdle ==
    /\ sg_pc = [t \in Ctors |-> "idle"]
    /\ sg_instance = "none"
    /\ sg_initialized = FALSE
    /\ sg_tasks = {}
    /\ sg_made = 0
    /\ sg_allocs = 0

\* __new__: if cls._instance is None, outside the lock
NewCheck(t) ==
    /\ sg_pc[t] = "idle"
    /\ sg_pc' = [sg_pc EXCEPT ![t] = IF sg_instance = "none" THEN "lock" ELSE "init"]
    /\ UNCHANGED <<sg_instance, sg_initialized, sg_tasks, sg_made, sg_allocs>>
    /\ UNCHANGED otherThanSingleton

\* with cls._lock: if cls._instance is None: cls._instance = super().__new__(cls)
NewAllocate(t) ==
    /\ sg_pc[t] = "lock"
    /\ \A u \in Ctors : sg_pc[u] # "locked"
    /\ IF sg_instance = "none"
       THEN /\ sg_instance' = "allocated"
            /\ sg_allocs' = sg_allocs + 1
            /\ sg_pc' = [sg_pc EXCEPT ![t] = "locked"]
       ELSE /\ sg_pc' = [sg_pc EXCEPT ![t] = "init"]
            /\ UNCHANGED <<sg_instance, sg_allocs>>
    /\ UNCHANGED <<sg_initialized, sg_tasks, sg_made>>
    /\ UNCHANGED otherThanSingleton

\* cls._instance._initialized = False, still under the lock, then return
NewFlag(t) ==
    /\ sg_pc[t] = "locked"
    /\ sg_instance' = "constructed"
    /\ sg_initialized' = FALSE
    /\ sg_pc' = [sg_pc EXCEPT ![t] = "init"]
    /\ UNCHANGED <<sg_tasks, sg_made, sg_allocs>>
    /\ UNCHANGED otherThanSingleton

\* __init__: if self._initialized: return; the attribute does not exist
\* before __new__ has assigned it (AttributeError)
InitCheckFlag(t) ==
    /\ sg_pc[t] = "init"
    /\ sg_pc' = [sg_pc EXCEPT ![t] =
                    IF sg_instance = "allocated" THEN "raised"
                    ELSE IF sg_initialized THEN "ready" ELSE "body"]
    /\ UNCHANGED <<sg_instance, sg_initialized, sg_tasks, sg_made, sg_allocs>>
    /\ UNCHANGED otherThanSingleton

\* the directories are made; self._tasks = {}; self._tasks_lock = threading.Lock()
InitBody(t) ==
    /\ sg_pc[t] = "body"
    /\ sg_tasks' = {}
    /\ sg_made' = sg_made + 1
    /\ sg_pc' = [sg_pc EXCEPT ![t] = "flag"]
    /\ UNCHANGED <<sg_instance, sg_initialized, sg_allocs>>
    /\ UNCHANGED otherThanSingleton

\* self._initialized = True
InitSetFlag(t) ==
    /\ sg_pc[t] = "flag"
    /\ sg_initialized' = TRUE
    /\ sg_pc' = [sg_pc EXCEPT ![t] = "ready"]
    /\ UNCHANGED <<sg_instance, sg_tasks, sg_made, sg_allocs>>
    /\ UNCHANGED otherThanSingleton

\* create_task by the thread that holds the manager: self._tasks[task_id] = task_info
SingletonCreateTask(t) ==
    /\ sg_pc[t] = "ready"
    /\ sg_tasks' = sg_tasks \cup {t}
    /\ sg_pc' = [sg_pc EXCEPT ![t] = "created"]
    /\ UNCHANGED <<sg_instance, sg_initialized, sg_made, sg_allocs>>
    /\ UNCHANGED otherThanSingleton

(***************************************************************************)
(* Web runs for one check date: _run_check_thread collects the clinic      *)
(* results of the back-ends it scraped, merges the other back-end's        *)
(* results of the newest artifact into a filtered run, and saves a new     *)
(* artifact.  A clinic result carries the number of the run that scraped   *)
(* it.                                                                     *)
(***************************************************************************)
MergeFilters == {"dent-sys", "stransa", None}
\* the clinic of each back-end
MergeClinic(b) == IF b = "dent-sys" THEN "A" ELSE "B"
NoMergeRun == [pc |-> "idle", filter |-> None, all_results |-> <<>>]

MergeIdle ==
    /\ mg_files = <<>>
    /\ mg_run = NoMergeRun

\* what one back-end contributes to all_results in run n: its clinic result,
\* or nothing when the scheduler returned no clinic or raised
BackendResults(b, n, ok) ==
    IF ok THEN <<[clinic |-> MergeClinic(b), system |-> b, run |-> n]>> ELSE <<>>

\* the loop over scrape_results: all_results.extend(analysis['results']),
\* Stransa first; a filtered run scrapes one back-end only
MergeScrape ==
    /\ mg_run.pc = "idle"
    /\ Len(mg_files) < MaxArtifacts
    /\ \E f \in MergeFilters, okSpa \in BOOLEAN, okLegacy \in BOOLEAN :
        mg_run' = [pc |-> "scraped", filter |-> f,
                   all_results |->
                       (IF f = "dent-sys" THEN <<>>
                        ELSE BackendResults("stransa", Len(mg_files) + 1, okSpa))
                       \o (IF f = "stransa" THEN <<>>
                           ELSE BackendResults("dent-sys", Len(mg_files) + 1, okLegacy))]
    /\ UNCHANGED mg_files
    /\ UNCHANGED otherThanMerge

\* _merge_with_latest(new_results, checked_system, ...): None without a file
\* or without results of the other system in the newest file
MergeWithLatest(new_results, checked_system, files) ==
    IF files = <<>> THEN new_results
    ELSE LET other_system == SelectSeq(files[Len(files)].results,
                                       LAMBDA r : r.system # checked_system)
         IN IF other_system = <<>> THEN new_results ELSE new_results \o other_system

\* if system_filter and all_results: merged = _merge_with_latest(...)
MergeStep ==
    /\ mg_run.pc = "scraped"
    /\ mg_run' = [mg_run EXCEPT
                    !.pc = "merged",
                    !.all_results =
                        IF mg_run.filter # None /\ mg_run.all_results # <<>>
                        THEN MergeWithLatest(mg_run.all_results, mg_run.filter, mg_files)
                        ELSE mg_run.all_results]
    /\ UNCHANGED mg_files
    /\ UNCHANGED otherThanMerge

\* saved = save_results(combined, output_dir, ['json', 'csv'])
SaveResults ==
    /\ mg_run.pc = "merged"
    /\ mg_files' = Append(mg_files, [filter |-> mg_run.filter, results |-> mg_run.all_results])
    /\ mg_run' = NoMergeRun
    /\ UNCHANGED otherThanMerge

(***************************************************************************)
(* TaskManager                                                             *)
(***************************************************************************)
Statuses == {"pending", "running", "completed", "failed"}
Terminal == {"completed", "failed"}

Clock == 0..MaxClock
\* task_id = datetime.now().strftime('%Y%m%d_%H%M%S'): one id per second
TaskId(t) == t
TaskIds == {TaskId(t) : t \in Clock}

NoId == -1
NoOp == [kind |-> "none", id |-> NoId, status |-> None, cur |-> 0, found |-> FALSE,
         raised |-> FALSE, io |-> <<>>, gcs_ok |-> TRUE, disk_ok |-> TRUE]

\* TaskInfo(task_id, status='pending', started_at=now, updated_at=now,
\*          progress=TaskProgress(current=0, total=0))
NewTaskInfo(id, t) ==
    [task_id |-> id, status |-> "pending", started_at |-> t, updated_at |-> t,
     completed_at |-> NoTime, progress |-> 0, error |-> None, result |-> None]

\* _load_task_from_file: object storage first (when enabled and readable),
\* then the local file; a read that fails yields nothing.
\* The result is a set: empty for None, else the one task loaded.
LoadTaskFromFile(id, gcs_ok, disk_ok) ==
    IF gcs_enabled /\ gcs_ok /\ id \in DOMAIN gcs_store THEN {gcs_store[id]}
    ELSE IF disk_ok /\ id \in DOMAIN local_store THEN {local_store[id]}
    ELSE {}

\* The outcome of _save_task_to_file(task): the two stores after it, the
\* order of the writes attempted, and whether an exception left the method.
SaveTaskRaisesOnLocalFailure(task, gcs_ok, disk_ok) ==
    [gcs    |-> IF gcs_enabled /\ gcs_ok
                THEN Put(gcs_store, task.task_id, task) ELSE gcs_store,
     local  |-> IF disk_ok
                THEN Put(local_store, task.task_id, task) ELSE local_store,
     io     |-> IF gcs_enabled THEN <<"gcs", "local">> ELSE <<"local">>,
     raised |-> ~disk_ok]

SaveTaskToFile(task, gcs_ok, disk_ok) ==
    [gcs    |-> IF gcs_enabled /\ gcs_ok
                THEN Put(gcs_store, task.task_id, task) ELSE gcs_store,
     local  |-> IF disk_ok
                THEN Put(local_store, task.task_id, task) ELSE local_store,
     io     |-> IF gcs_enabled THEN <<"gcs", "local">> ELSE <<"local">>,
     raised |-> FALSE]

\* get_task: the in-memory entry first, else whatever can be loaded
GetTask(id, gcs_ok, disk_ok) ==
    IF id \in DOMAIN tasks THEN {tasks[id]} ELSE LoadTaskFromFile(id, gcs_ok, disk_ok)

\* the wall clock advances
Tick ==
    /\ now < MaxClock
    /\ now' = now + 1
    /\ UNCHANGED <<tasks, gcs_store, local_store, gcs_enabled, last_op, ops>>
    /\ UNCHANGED otherThanTask

\* the host process restarts: __init__ starts from an empty in-memory map
Restart ==
    /\ ops < MaxOps
    /\ ops' = ops + 1
    /\ tasks' = EmptyMap
    /\ last_op' = [NoOp EXCEPT !.kind = "restart"]
    /\ UNCHANGED <<gcs_store, local_store, now, gcs_enabled>>
    /\ UNCHANGED otherThanTask

\* with self._tasks_lock: self._tasks[task_id] = task; self._save_task_to_file(task)
StoreAndSave(kind, id, st, cur, task, gcs_ok, disk_ok) ==
    LET s == SaveTaskToFile(task, gcs_ok, disk_ok) IN
    /\ ops < MaxOps
    /\ ops' = ops + 1
    /\ tasks' = Put(tasks, id, task)
    /\ gcs_store' = s.gcs
    /\ local_store' = s.local
    /\ last_op' = [kind |-> kind, id |-> id, status |-> st, cur |-> cur, found |-> TRUE,
                   raised |-> s.raised, io |-> s.io,
                   gcs_ok |-> gcs_ok, disk_ok |-> disk_ok]
    /\ UNCHANGED <<now, gcs_enabled>>
    /\ UNCHANGED otherThanTask

NotFound(kind, id, st, cur) ==
    /\ ops < MaxOps
    /\ ops' = ops + 1
    /\ last_op' = [NoOp EXCEPT !.kind = kind, !.id = id, !.status = st, !.cur = cur]
    /\ UNCHANGED <<tasks, gcs_store, local_store, now, gcs_enabled>>
    /\ UNCHANGED otherThanTask

\* the outcomes of a write to, or a read from, object storage; it is only
\* attempted when object storage is configured
GcsOutcomes == IF gcs_enabled THEN BOOLEAN ELSE {TRUE}
\* the reads _load_task_from_file makes happen only on a miss in self._tasks
LoadOutcomes(id) ==
    IF id \in DOMAIN tasks THEN {<<TRUE, TRUE>>} ELSE GcsOutcomes \X BOOLEAN

CreateTask ==
    \E gcs_ok \in GcsOutcomes, disk_ok \in BOOLEAN :
        StoreAndSave("create", TaskId(now), "pending", 0,
                     NewTaskInfo(TaskId(now), now), gcs_ok, disk_ok)

\* for key, value in kwargs.items(): if hasattr(task, key): setattr(task, key, value)
SetAttrs(task, kwargs) ==
    [k \in DOMAIN task |-> IF k \in DOMAIN kwargs THEN kwargs[k] ELSE task[k]]

\* update_task(task_id, **kwargs)
UpdateTaskWith(kind, id, st, kwargs, lg, ld, gcs_ok, disk_ok) ==
    LET found == GetTask(id, lg, ld) IN
    IF found = {}
    THEN NotFound(kind, id, st, 0)
    ELSE LET task == CHOOSE t \in found : TRUE IN
         StoreAndSave(kind, id, st, 0, [SetAttrs(task, kwargs) EXCEPT !.updated_at = now],
                      gcs_ok, disk_ok)

UpdateTask ==
    \E id \in TaskIds, s \in Statuses :
    \E l \in LoadOutcomes(id), gcs_ok \in GcsOutcomes, disk_ok \in BOOLEAN :
        UpdateTaskWith("update", id, s, [status |-> s], l[1], l[2], gcs_ok, disk_ok)

UpdateProgress ==
    \E id \in TaskIds, cur \in 0..MaxProgress :
    \E gcs_ok \in GcsOutcomes, disk_ok \in BOOLEAN :
        IF id \notin DOMAIN tasks
        THEN NotFound("progress", id, None, cur)
        ELSE StoreAndSave("progress", id, None, cur,
                          [tasks[id] EXCEPT !.progress = cur, !.updated_at = now],
                          gcs_ok, disk_ok)

CompleteTask ==
    \E id \in TaskIds :
    \E l \in LoadOutcomes(id), gcs_ok \in GcsOutcomes, disk_ok \in BOOLEAN :
        UpdateTaskWith("complete", id, "completed",
                       [status |-> "completed", completed_at |-> now, result |-> "result"],
                       l[1], l[2], gcs_ok, disk_ok)

FailTask ==
    \E id \in TaskIds :
    \E l \in LoadOutcomes(id), gcs_ok \in GcsOutcomes, disk_ok \in BOOLEAN :
        UpdateTaskWith("fail", id, "failed",
                       [status |-> "failed", completed_at |-> now, error |-> "error"],
                       l[1], l[2], gcs_ok, disk_ok)

TaskManagerInit ==
    /\ tasks = EmptyMap
    /\ gcs_store = EmptyMap
    /\ local_store = EmptyMap
    /\ now = 0
    /\ gcs_enabled \in BOOLEAN
    /\ last_op = NoOp
    /\ ops = 0

(***************************************************************************)
(* POST /check as a specification, and the claims checked under it.        *)
(***************************************************************************)
TaskIdle == TaskManagerInit /\ gcs_enabled = FALSE

InitCheck == CheckIdle /\ TaskIdle /\ SchedIdle /\ RowsIdle /\ AggIdle /\ PoolIdle /\ DateIdle /\ AnalyzerIdle /\ ParseIdle /\ SpaIdle /\ StartupIdle /\ SingletonIdle /\ MergeIdle

NextCheck ==
    \/ WallTick
    \/ \E r \in Requests : Arrive(r)
    \/ \E r \in Requests : RejectIfRunning(r)
    \/ \E r \in Requests : MarkStarted(r)
    \/ \E r \in Requests : CreateThread(r)
    \/ \E r \in Requests : StartThread(r)
    \/ \E h \in Handles : WorkerFinish(h)
    \/ \E h \in Handles : WorkerExit(h)

SpecCheck == InitCheck /\ [][NextCheck]_vars

\* C1: at most one check worker thread is alive at any time.
C1_AtMostOneWorker ==
    Cardinality({h \in Handles : IsAlive(h)}) <= 1

(***************************************************************************)
(* The TaskManager as a specification.                                     *)
(***************************************************************************)
InitTask == TaskManagerInit /\ CheckIdle /\ SchedIdle /\ RowsIdle /\ AggIdle /\ PoolIdle /\ DateIdle /\ AnalyzerIdle /\ ParseIdle /\ SpaIdle /\ StartupIdle /\ SingletonIdle /\ MergeIdle

NextTask ==
    \/ Tick
    \/ Restart
    \/ CreateTask
    \/ UpdateTask
    \/ UpdateProgress
    \/ CompleteTask
    \/ FailTask

SpecTask == InitTask /\ [][NextTask]_vars

(***************************************************************************)
(* Claims about the TaskManager, checked under SpecTask.                   *)
(***************************************************************************)
Mutations == {"create", "update", "progress", "complete", "fail"}

\* C5: a task's status is always one of pending, running, completed, failed,
\* and once it is completed or failed no later operation changes it.
C5_StatusMonotonic ==
    /\ [](\A id \in DOMAIN tasks : tasks[id].status \in Statuses)
    /\ [][\A id \in DOMAIN tasks \cap DOMAIN tasks' :
             tasks[id].status \in Terminal => tasks'[id].status = tasks[id].status]_vars

\* C6: create_task never yields the id of an existing task, and never
\* replaces the in-memory or durable record of an existing task.
C6_NoIdCollision ==
    [][(last_op'.kind = "create" /\ ops' = ops + 1) =>
            /\ last_op'.id \notin DOMAIN tasks
            /\ last_op'.id \notin DOMAIN gcs_store
            /\ last_op'.id \notin DOMAIN local_store]_vars

\* C7: a mutation whose object-storage save, local write or both fail does
\* not raise, leaves the mutated task in the in-memory map where get_task
\* finds it, and attempts the object-storage save before the local write.
C7_SaveFailureKeepsMemory ==
    (last_op.kind \in Mutations /\ last_op.found) =>
        /\ ~last_op.raised
        /\ last_op.id \in DOMAIN tasks
        /\ \A lg, ld \in BOOLEAN :
              /\ GetTask(last_op.id, lg, ld) = {tasks[last_op.id]}
              /\ \A t \in GetTask(last_op.id, lg, ld) :
                    IF last_op.kind = "progress"
                    THEN t.progress = last_op.cur
                    ELSE t.status = last_op.status
        /\ last_op.io = IF gcs_enabled THEN <<"gcs", "local">> ELSE <<"local">>

\* C7 witness: complete_task with both saves failing, the completed task
\* held in memory only
C7_Witness ==
    /\ last_op.kind = "complete" /\ last_op.found
    /\ gcs_enabled /\ ~last_op.gcs_ok /\ ~last_op.disk_ok
    /\ last_op.id \in DOMAIN tasks
    /\ tasks[last_op.id].status = "completed"
    /\ last_op.id \notin DOMAIN gcs_store
    /\ last_op.id \notin DOMAIN local_store

(***************************************************************************)
(* One scheduler called on its own, as a specification.                    *)
(***************************************************************************)
InitSched ==
    /\ TaskIdle /\ CheckIdle /\ RowsIdle /\ AggIdle /\ PoolIdle /\ DateIdle /\ AnalyzerIdle /\ ParseIdle /\ SpaIdle /\ StartupIdle /\ SingletonIdle /\ MergeIdle
    /\ \/ SchedConfigured(NumLegacy, 0, "single")
       \/ SchedConfigured(0, NumSpa, "single")

NextSched ==
    \/ \E b \in Backends : CallScheduler(b)
    \/ \E c \in AllClinics : Acquire(c)
    \/ \E c \in AllClinics : NewPage(c)
    \/ \E c \in AllClinics : Protocol(c)
    \/ \E c \in AllClinics : ClosePage(c)
    \/ \E b \in Backends : Collect(b)

SpecSched == InitSched /\ [][NextSched]_vars

\* C2: the dict a scheduler returns has a key for every submitted clinic; a
\* clinic whose worker failed maps to an empty observation map and the
\* others map to their observations.
C2_EveryClinicReturned ==
    \A b \in Backends : sched[b] = "returned" =>
        /\ DOMAIN results[b] = clinics[b]
        /\ \A c \in DOMAIN results[b] :
              results[b][c] = IF wk[c].out = "slots" THEN "slots" ELSE "empty"

\* C8: the workers holding a scheduler's semaphore never number more than
\* its cap, 3 for the legacy scheduler and 4 for the SPA scheduler.
C8_SemaphoreCap ==
    \A b \in Backends :
        /\ Cardinality(Holders(b)) <= Cap(b)
        /\ Cardinality(pages \cap clinics[b]) <= Cap(b)

\* C8 witness: the cap is reached while a further clinic waits
C8_Witness ==
    \E b \in Backends :
        /\ Cardinality(pages \cap clinics[b]) = Cap(b)
        /\ \E c \in clinics[b] : wk[c].pc = "queued"

\* C9: a worker that has returned has no open page, whatever its outcome,
\* and no page of a scheduler's workers is open once it has returned.
C9_PagesClosed ==
    /\ \A c \in AllClinics : wk[c].pc = "done" => c \notin pages
    /\ \A b \in Backends : sched[b] = "returned" => pages \cap clinics[b] = {}

\* C9 witness: a scheduler has returned after workers ended by failure, by
\* an empty result and by success
C9_Witness ==
    /\ sched["dent-sys"] = "returned"
    /\ pages = {}
    /\ \E c1, c2, c3 \in clinics["dent-sys"] :
          /\ wk[c1].out = "slots"
          /\ wk[c2].out = "empty"
          /\ wk[c3].out = "exception"

(***************************************************************************)
(* A run over both back-ends, as a specification.                          *)
(***************************************************************************)
InitRun ==
    /\ TaskIdle /\ CheckIdle /\ RowsIdle /\ AggIdle /\ PoolIdle /\ DateIdle /\ AnalyzerIdle /\ ParseIdle /\ SpaIdle /\ StartupIdle /\ SingletonIdle /\ MergeIdle
    /\ \E k \in RunKinds : SchedConfigured(NumPerRun, NumPerRun, k)

NextRun ==
    \/ WebScrapeSpa
    \/ WebScrapeLegacy
    \/ WebScrapeReturn
    \/ CliGather
    \/ CliGathered
    \/ \E c \in AllClinics : Acquire(c)
    \/ \E c \in AllClinics : NewPage(c)
    \/ \E c \in AllClinics : Protocol(c)
    \/ \E c \in AllClinics : ClosePage(c)
    \/ \E b \in Backends : Collect(b)

SpecRun == InitRun /\ [][NextRun]_vars

\* C10: in a run over both back-ends no SPA worker starts before every
\* legacy worker has finished, and workers of the two back-ends never overlap.
C10_LegacyBeforeSpa ==
    \A s \in clinics["stransa"] :
        wk[s].pc \notin {"idle", "queued"} =>
            \A l \in clinics["dent-sys"] : wk[l].pc = "done"

\* C10 (amended): in a web-triggered run the back-ends are scraped one after
\* the other, SPA first: no legacy worker starts before every SPA worker
\* has finished, and workers of the two back-ends never overlap.
C10_WebSpaBeforeLegacy ==
    run.kind = "web" =>
        /\ \A l \in clinics["dent-sys"] :
              wk[l].pc \notin {"idle", "queued"} =>
                  \A s \in clinics["stransa"] : wk[s].pc = "done"
        /\ ~(\E l \in clinics["dent-sys"], s \in clinics["stransa"] :
                /\ wk[l].pc \in {"opening", "open", "closing"}
                /\ wk[s].pc \in {"opening", "open", "closing"})

\* C10 witness: a legacy worker of a web run has its page open, after the
\* SPA scheduler has returned
C10_Witness ==
    /\ run.kind = "web"
    /\ sched["stransa"] = "returned"
    /\ \E l \in clinics["dent-sys"] : wk[l].pc = "open" /\ l \in pages

(***************************************************************************)
(* The row-time mapper applied to a table, as a specification.             *)
(***************************************************************************)
InitRows ==
    /\ TaskIdle /\ CheckIdle /\ SchedIdle /\ AggIdle /\ PoolIdle /\ DateIdle /\ AnalyzerIdle /\ ParseIdle /\ SpaIdle /\ StartupIdle /\ SingletonIdle /\ MergeIdle
    /\ rows_data \in RowTables
    /\ slot_interval \in SlotIntervals
    /\ row_map = EmptyMap
    /\ row_pc = "input"

NextRows == MapRows

SpecRows == InitRows /\ [][NextRows]_vars

\* C4: the minutes build_row_time_mapping emits are strictly increasing
\* with the row index.
C4_RowMapIncreasing ==
    row_pc = "mapped" =>
        \A a, b \in DOMAIN row_map : a < b => row_map[a] < row_map[b]

(***************************************************************************)
(* Analysis of one back-end's observations followed by the web-booking     *)
(* filter, as a specification.                                             *)
(***************************************************************************)
InitAgg ==
    /\ TaskIdle /\ CheckIdle /\ SchedIdle /\ RowsIdle /\ PoolIdle /\ DateIdle /\ AnalyzerIdle /\ ParseIdle /\ SpaIdle /\ StartupIdle /\ SingletonIdle /\ MergeIdle
    /\ agg_scrape \in ScrapeResults
    /\ agg_system \in SystemTypes
    /\ agg_settings \in SlotSettings
    /\ agg_rules \in StaffRules
    /\ agg_data = NoData
    /\ agg_pc = "input"

NextAgg == Analyze \/ Filter \/ DashboardFilter

SpecAgg == InitAgg /\ [][NextAgg]_vars

InitPool ==
    /\ TaskIdle /\ CheckIdle /\ SchedIdle /\ RowsIdle /\ AggIdle /\ DateIdle /\ AnalyzerIdle /\ ParseIdle /\ SpaIdle /\ StartupIdle /\ SingletonIdle /\ MergeIdle
    /\ PoolIdle

NextPool ==
    \E r \in PoolRuns :
        \/ RunAsync(r)
        \/ PoolOpenPage(r)
        \/ PoolClosePage(r)
        \/ CoroReturn(r)
        \/ PoolWait(r)
        \/ FutureTimeout(r)

SpecPool == InitPool /\ [][NextPool]_vars

\* C11: once a run has timed out in run_async, none of its pages is open,
\* its coroutine no longer runs on the loop, the browser is alive, the run
\* is marked failed, and no other run's coroutine runs beside its leftovers.
C11_TimeoutKillsRun ==
    \A r \in PoolRuns :
        pool_thread[r] = "timed_out" =>
            /\ pool_pages[r] = 0
            /\ pool_coro[r] # "running"
            /\ pool_browser
            /\ pool_result[r] = "False"
            /\ \A q \in PoolRuns \ {r} :
                 ~(pool_coro[q] = "running" /\ pool_coro[r] = "running")

(***************************************************************************)
(* Documents produced while the clock runs, on a host in some zone.        *)
(***************************************************************************)
InitDate ==
    /\ TaskIdle /\ CheckIdle /\ SchedIdle /\ RowsIdle /\ AggIdle /\ PoolIdle /\ AnalyzerIdle /\ ParseIdle /\ SpaIdle /\ StartupIdle /\ SingletonIdle /\ MergeIdle
    /\ date_now = FirstHour
    /\ date_zone \in HostZones
    /\ date_artifact = NoArtifact

NextDate == HourPasses \/ AnalyzeResultsDate \/ MainAsyncDate \/ RunCheckDate

SpecDate == InitDate /\ [][NextDate]_vars

\* C12: every document's check_date is the JST date of the moment it was
\* produced plus one day, whatever the host's zone and whoever produced it.
C12_CheckDateIsJstTomorrow ==
    date_artifact.by \in DateProducers =>
        date_artifact.check_date = DayOf(date_artifact.made_at, JstOffset) + 1

(***************************************************************************)
(* One call of a slot-analyzer function on a list of timestamps.           *)
(***************************************************************************)
InitAnalyzer ==
    /\ TaskIdle /\ CheckIdle /\ SchedIdle /\ RowsIdle /\ AggIdle /\ PoolIdle /\ DateIdle /\ ParseIdle /\ SpaIdle /\ StartupIdle /\ SingletonIdle /\ MergeIdle
    /\ an_times \in AnalyzerLists
    /\ an_interval \in AnalyzerIntervals
    /\ an_call = None
    /\ an_args = NoArgs
    /\ an_out = NoOut

NextAnalyzer ==
    \/ CallDetectSlotInterval
    \/ CallCountConsecutiveBlocks
    \/ CallCount30MinBlocks
    \/ CallAnalyzeDoctorSlots
    \/ CallRecalculateDetail

SpecAnalyzer == InitAnalyzer /\ [][NextAnalyzer]_vars

\* C13: analyze_doctor_slots, count_consecutive_blocks and count_30min_blocks
\* never raise, and on empty input they return blocks 0 and no ranges.
C13_AnalyzerNeverRaises ==
    an_call \in {"analyze_doctor_slots", "count_consecutive_blocks", "count_30min_blocks"} =>
        /\ ~an_out.raised
        /\ an_times = <<>> =>
             an_out.blocks = 0 /\ an_out.ranges = <<>> /\ an_out.times = <<>>

\* the timestamps of the call as a set, and the gaps between neighbours of it
CallTimes == {an_times[i] : i \in 1..Len(an_times)}
CallGapPairs ==
    {p \in CallTimes \X CallTimes :
        p[1] < p[2] /\ ~\E x \in CallTimes : p[1] < x /\ x < p[2]}
HowOften(g) == Cardinality({p \in CallGapPairs : p[2] - p[1] = g})
\* g is a gap of the list and strictly more frequent than every other gap
Dominant(g) ==
    /\ HowOften(g) > 0
    /\ \A p \in CallGapPairs : p[2] - p[1] # g => HowOften(p[2] - p[1]) < HowOften(g)

\* C14: detect_slot_interval returns the default for a list of fewer than
\* two elements, and the gap g for a list of at least two elements whose
\* strictly most frequent positive neighbour difference g is in {5,10,15,20,30}.
C14_DetectDominantGap ==
    an_call = "detect_slot_interval" =>
        /\ Len(an_times) < 2 => an_out.interval = an_interval
        /\ \A g \in {5, 10, 15, 20, 30} :
             (Len(an_times) >= 2 /\ Dominant(g)) => an_out.interval = g

\* an unsorted list with gaps 10, 5, 5: the dominant gap is neither the
\* first gap nor the default
C14_Witness ==
    /\ an_call = "detect_slot_interval"
    /\ an_times = <<560, 540, 555, 550>>
    /\ an_interval = 15
    /\ Dominant(5)
    /\ an_out.interval = 5

\* the list of the call is t, t+i, ..., t+(n-1)*i for the interval i of the call
CallIsArithmeticRun ==
    /\ Len(an_times) >= 1
    /\ \A k \in 1..Len(an_times) : an_times[k] = an_times[1] + (k - 1) * an_interval

\* C15: count_consecutive_blocks on an arithmetic run of n timestamps with
\* the call's interval returns the one range (first, last) and count 1 when
\* n >= r, and no range and count 0 when n < r.
C15_OneRangePerRun ==
    (an_call = "count_consecutive_blocks" /\ CallIsArithmeticRun) =>
        IF Len(an_times) >= an_args.required
        THEN /\ an_out.ranges = <<<<an_times[1], an_times[Len(an_times)]>>>>
             /\ an_out.blocks = 1
        ELSE /\ an_out.ranges = <<>>
             /\ an_out.blocks = 0

\* a run of three timestamps with required run 2 has given its one range
C15_Witness ==
    /\ an_call = "count_consecutive_blocks"
    /\ CallIsArithmeticRun
    /\ an_times = <<550, 555, 560>>
    /\ an_args.required = 2
    /\ an_out.ranges = <<<<550, 560>>>>

\* a and b are neighbours of the sorted list, the call's interval apart
CallLinked(a, b) == <<a, b>> \in CallGapPairs /\ b - a = an_interval

\* the maximal runs of the call's timestamps: where they start and how long they are
CallRunStarts == {s \in CallTimes : ~\E a \in CallTimes : CallLinked(a, s)}
CallRunLength(s) ==
    CHOOSE n \in 1..Len(an_times) :
        /\ \A k \in 1..(n - 1) :
             CallLinked(s + (k - 1) * an_interval, s + k * an_interval)
        /\ ~CallLinked(s + (n - 1) * an_interval, s + n * an_interval)

RECURSIVE SumOfFloors(_, _)
\* the sum of floor(n_k / r) over the runs that start in S
SumOfFloors(S, r) ==
    IF S = {} THEN 0
    ELSE LET s == CHOOSE x \in S : TRUE
         IN (CallRunLength(s) \div r) + SumOfFloors(S \ {s}, r)

\* C16: count_30min_blocks on a list of distinct timestamps returns the sum
\* of floor(n_k / r) over its maximal runs of spacing i (floor(n / r) for a
\* single run).
C16_SumOfFloors ==
    (an_call = "count_30min_blocks" /\ Cardinality(CallTimes) = Len(an_times)) =>
        /\ ~an_out.raised
        /\ an_out.blocks = SumOfFloors(CallRunStarts, an_args.required)

\* an unsorted list with the runs [540] and [550, 555, 560], required run 2
C16_Witness ==
    /\ an_call = "count_30min_blocks"
    /\ an_times = <<560, 540, 555, 550>>
    /\ an_interval = 5
    /\ an_args.required = 2
    /\ Cardinality(CallRunStarts) = 2
    /\ an_out.blocks = 1

\* the details entries of staff member s in clinic result r
EntriesOf(r, s) == {k \in 1..Len(r.details) : r.details[k].doctor = s}

\* C17: after analyze_results of a stransa back-end every staff analysis is
\* the one of the fixed interval 15 with required run threshold / 15: a
\* staff member with no such run has no blocks, any other has exactly the
\* blocks counted at interval 15.
C17_StransaFixedInterval ==
    (agg_pc = "analyzed" /\ agg_system = "stransa") =>
        \A i \in 1..Len(agg_data.results) :
            LET r == agg_data.results[i] IN
            \A s \in StaffSet(r.clinic) :
                LET t == Threshold(agg_rules[r.clinic], s)
                    expected == Count30MinBlocks(agg_scrape[r.clinic][s], StransaInterval,
                                                 t \div StransaInterval)
                IN /\ \A k \in EntriesOf(r, s) :
                        /\ r.details[k].blocks = expected
                        /\ r.details[k].slot_interval = StransaInterval
                   /\ expected > 0 => EntriesOf(r, s) # {}

InitParse ==
    /\ TaskIdle /\ CheckIdle /\ SchedIdle /\ RowsIdle /\ AggIdle /\ PoolIdle /\ DateIdle /\ AnalyzerIdle /\ SpaIdle /\ StartupIdle /\ SingletonIdle /\ MergeIdle
    /\ ps_rows \in ParseTables
    /\ ps_anchors \in AnchorLists
    /\ ps_slots = EmptyMap
    /\ ps_pc = "input"

NextParse == ParseSchedule

SpecParse == InitParse /\ [][NextParse]_vars

RECURSIVE WithoutRepeats(_)
\* the anchors with every repeated <<col, row>> pair dropped
WithoutRepeats(anchors) ==
    IF anchors = <<>> THEN <<>>
    ELSE LET rest == WithoutRepeats(SubSeq(anchors, 1, Len(anchors) - 1))
             last == anchors[Len(anchors)]
         IN IF \E i \in 1..Len(rest) : rest[i] = last THEN rest ELSE Append(rest, last)

\* C19: the observation lists, and the blocks and time ranges the slot
\* analyzer derives from them, are the same as when every repeated
\* (col, row) anchor is processed once only.
C19_DuplicateAnchorsIdempotent ==
    ps_pc = "parsed" =>
        LET once == ParseScheduleFromIframe(ps_rows, WithoutRepeats(ps_anchors),
                                            ParseHeaders, ParseInterval)
        IN /\ DOMAIN ps_slots = DOMAIN once
           /\ \A d \in DOMAIN ps_slots :
                /\ ps_slots[d] = once[d]
                /\ Count30MinBlocks(ps_slots[d], ParseInterval, 1)
                     = Count30MinBlocks(once[d], ParseInterval, 1)
                /\ CountConsecutiveBlocks(ps_slots[d], 1, ParseInterval)
                     = CountConsecutiveBlocks(once[d], 1, ParseInterval)

\* C20: every list of the returned doctor_slots is strictly increasing and
\* all its elements are in [0, 1440).
C20_SlotsIncreasingInDay ==
    ps_pc = "parsed" =>
        \A d \in DOMAIN ps_slots :
            /\ \A i \in 1..Len(ps_slots[d]) : 0 <= ps_slots[d][i] /\ ps_slots[d][i] < 1440
            /\ \A i, j \in 1..Len(ps_slots[d]) : i < j => ps_slots[d][i] < ps_slots[d][j]

(***************************************************************************)
(* The SPA extraction applied to a schedule table.                         *)
(***************************************************************************)
InitSpa ==
    /\ TaskIdle /\ CheckIdle /\ SchedIdle /\ RowsIdle /\ AggIdle /\ PoolIdle /\ DateIdle /\ AnalyzerIdle /\ ParseIdle /\ StartupIdle /\ SingletonIdle /\ MergeIdle
    /\ sp_rows \in SpaTables
    /\ sp_slots = EmptyMap
    /\ sp_pc = "input"

NextSpa == ExtractSpa

SpecSpa == InitSpa /\ [][NextSpa]_vars

\* the four conditions of a free cell as the contract states them
FreeCell(cell) ==
    /\ cell.text \in {"", "nbsp"}
    /\ cell.colspan \in {"", "1"} /\ cell.rowspan \in {"", "1"}
    /\ Lower(cell.className) \notin BlockedIndicators
    /\ \A i \in 1..Len(cell.style) :
          /\ cell.style[i][1] = "background" => cell.style[i][2] \in WhiteWords
          /\ cell.style[i] # <<"display", "none">>

\* C21: a time t is in the list of the chair exactly if some time row of
\* time t has a cell under the chair that meets all four conditions.
C21_FreeCellIffFourConditions ==
    sp_pc = "extracted" =>
        \A t \in {540, 555} :
            (/\ "Z" \in DOMAIN sp_slots
             /\ \E k \in 1..Len(sp_slots["Z"]) : sp_slots["Z"][k] = t)
            <=> \E i \in 1..Len(sp_rows) :
                    /\ sp_rows[i].label.colon
                    /\ sp_rows[i].label.hours * 60 + sp_rows[i].label.mins = t
                    /\ FreeCell(sp_rows[i].cell)

\* the threshold the contract gives a staff member: orthodontist before
\* doctor before hygienist, else 30
ThresholdByPrecedence(clinic_config, name) ==
    IF name \in clinic_config.orthodontists THEN clinic_config.slot_threshold.orthodontist
    ELSE IF name \in clinic_config.doctors THEN clinic_config.slot_threshold.doctor
    ELSE IF name \in clinic_config.hygienists THEN clinic_config.slot_threshold.hygienist
    ELSE 30

\* C22: every staff entry of an analysed clinic was analysed with the
\* threshold of its category, orthodontist before doctor before hygienist,
\* and with 30 when the staff member is in no category.
C22_ThresholdByCategory ==
    agg_pc = "analyzed" =>
        \A i \in 1..Len(agg_data.results) :
            \A k \in 1..Len(agg_data.results[i].details) :
                agg_data.results[i].details[k].threshold_minutes
                  = ThresholdByPrecedence(agg_rules[agg_data.results[i].clinic],
                                          agg_data.results[i].details[k].doctor)

\* the analysed data the filters were given
AnalyzedData == AnalyzeResults(agg_scrape, agg_settings, agg_system, agg_rules)

C28_SummaryCountsAvailable ==
    agg_pc \in {"filtered", "dashboard"} =>
        agg_data.summary.clinics_with_availability = Available(agg_data.results)

\* C24: after _recalculate_detail with a threshold T that is at least the
\* stored interval, on a detail with raw timestamps, blocks and time ranges
\* are those analyze_doctor_slots returns for the raw timestamps with
\* threshold T, and recomputing again with T leaves them as they are.
C24_RecalculateAgreesWithAnalyzer ==
    (/\ an_call = "_recalculate_detail"
     /\ an_out.raw # <<>>
     /\ an_args.threshold >= an_out.interval) =>
        /\ ~an_out.raised
        /\ an_out.blocks
             = AnalyzeDoctorSlots("X", an_out.raw, an_interval, an_args.threshold).blocks
        /\ an_out.times
             = AnalyzeDoctorSlots("X", an_out.raw, an_interval, an_args.threshold).times
        /\ RecalculateDetail(PersistedDetail, an_args.threshold) = PersistedDetail

\* a detail with a stored interval other than the default was recomputed and
\* has a block
C24_Witness ==
    /\ an_call = "_recalculate_detail"
    /\ an_out.raw # <<>>
    /\ an_out.interval = 15 /\ an_interval = 5
    /\ an_args.threshold = 30
    /\ an_out.blocks = 1

\* C25: a request answered with 409 leaves the recorded start time, the
\* thread handle, the last result and the last error as they were, and the
\* elapsed seconds it reports are those of a run that is alive, counted from
\* the start time that run recorded.
C25_RejectionChangesNothing ==
    [][\A r \in Requests :
          (req[r].pc = "check" /\ req'[r].pc = "done" /\ req'[r].resp.code = 409) =>
              /\ UNCHANGED <<check_thread, check_started_at, check_result, check_error>>
              /\ \E h \in Handles :
                    /\ IsAlive(h)
                    /\ req'[r].resp.elapsed = wall - req[h].started]_vars

(***************************************************************************)
(* init_browser calls one after the other, interleaved with web runs.      *)
(***************************************************************************)
InitStartup ==
    /\ TaskIdle /\ CheckIdle /\ SchedIdle /\ RowsIdle /\ AggIdle /\ PoolIdle /\ DateIdle /\ AnalyzerIdle /\ ParseIdle /\ SpaIdle /\ SingletonIdle /\ MergeIdle
    /\ StartupIdle

NextStartup ==
    \/ \E i \in InitCalls : InitBrowser(i)
    \/ \E i \in InitCalls : RunLoop(i)
    \/ \E i \in InitCalls : SubmitStartBrowser(i)
    \/ \E i \in InitCalls : StartBrowser(i)
    \/ \E i \in InitCalls : InitResult(i)
    \/ \E c \in WebRuns : GetBrowser(c)
    \/ \E c \in WebRuns : GetBrowserReturn(c)
    \/ \E c \in WebRuns : GetBrowserTimeout(c)
    \/ \E c \in WebRuns : ScrapeWithBrowser(c)

SpecStartup == InitStartup /\ [][NextStartup]_vars

\* C26: the process has launched at most one browser, whatever init_browser
\* calls and web runs have happened, and no web run has launched its own.
C26_AtMostOneBrowser ==
    /\ Cardinality(bp_launched) <= 1
    /\ \A c \in WebRuns : OwnBrowser(c) \notin bp_launched

\* C27: a value returned by get_browser is a launched browser and is
\* returned only after an init_browser call has completed successfully; as
\* long as no initialization has succeeded no call returns a browser.
C27_GetBrowserAfterInit ==
    \A c \in WebRuns :
        bp_get[c].pc \in {"returned", "scraped"} =>
            /\ bp_get[c].value # NoBrowser
            /\ bp_get[c].value \in bp_launched
            /\ \E i \in InitCalls : bp_init[i].pc = "ready"

\* one caller gave up while the launch was pending and a later caller got
\* the browser of the completed initialization
C27_Witness ==
    \E c, d \in WebRuns :
        /\ bp_get[c].pc = "error"
        /\ bp_get[d].pc = "returned"
        /\ bp_get[d].value = bp_browser

(***************************************************************************)
(* Several threads construct TaskManager() and create a task each.         *)
(***************************************************************************)
InitSingleton ==
    /\ TaskIdle /\ CheckIdle /\ SchedIdle /\ RowsIdle /\ AggIdle /\ PoolIdle /\ DateIdle /\ AnalyzerIdle /\ ParseIdle /\ SpaIdle /\ StartupIdle /\ MergeIdle
    /\ SingletonIdle

NextSingleton ==
    \/ \E t \in Ctors : NewCheck(t)
    \/ \E t \in Ctors : NewAllocate(t)
    \/ \E t \in Ctors : NewFlag(t)
    \/ \E t \in Ctors : InitCheckFlag(t)
    \/ \E t \in Ctors : InitBody(t)
    \/ \E t \in Ctors : InitSetFlag(t)
    \/ \E t \in Ctors : SingletonCreateTask(t)

SpecSingleton == InitSingleton /\ [][NextSingleton]_vars

\* C29: one instance is allocated, no constructor call raises, the body of
\* __init__ creates the task map once, and a task a thread has created is in
\* the task map.
C29_SingletonUnderConcurrency ==
    /\ sg_allocs <= 1
    /\ \A t \in Ctors : sg_pc[t] # "raised"
    /\ sg_made <= 1
    /\ \A t \in Ctors : sg_pc[t] = "created" => t \in sg_tasks

(***************************************************************************)
(* Web runs for the same check date, one after the other.                  *)
(***************************************************************************)
InitMerge ==
    /\ TaskIdle /\ CheckIdle /\ SchedIdle /\ RowsIdle /\ AggIdle /\ PoolIdle /\ DateIdle /\ AnalyzerIdle /\ ParseIdle /\ SpaIdle /\ StartupIdle /\ SingletonIdle
    /\ MergeIdle

NextMerge == MergeScrape \/ MergeStep \/ SaveResults

SpecMerge == InitMerge /\ [][NextMerge]_vars

\* the results of back-end b in an artifact
OfBackend(artifact, b) == SelectSeq(artifact.results, LAMBDA r : r.system = b)

\* C30: every artifact holds a clinic at most once; an artifact saved by a
\* run restricted to one back-end holds for that back-end only results of
\* that run, and for the other back-end exactly the results the artifact
\* before it held.
C30_FilteredRunKeepsOtherBackend ==
    \A k \in 1..Len(mg_files) :
        /\ \A i, j \in 1..Len(mg_files[k].results) :
              mg_files[k].results[i].clinic = mg_files[k].results[j].clinic => i = j
        /\ (mg_files[k].filter # None /\ k > 1) =>
              \A b \in {"dent-sys", "stransa"} :
                  IF b = mg_files[k].filter
                  THEN \A i \in 1..Len(OfBackend(mg_files[k], b)) :
                          OfBackend(mg_files[k], b)[i].run = k
                  ELSE OfBackend(mg_files[k], b) = OfBackend(mg_files[k - 1], b)

====
